---- MODULE Spec2Model ----
(***************************************************************************)
(* Model of pecor/job-offers-scraper: the two offer stores and their       *)
(* insert paths, the scrape orchestrator and its task registry, the offers *)
(* API (list, mark-seen, delete-expired, export, import, technologies),    *)
(* the scrapers' excluded-keyword filter, the two configuration stores and *)
(* the process entry point main.py.                                        *)
(*                                                                         *)
(* Text is a sequence of one-character strings; an absent (Python None,    *)
(* SQL NULL) text value is the one-element sequence None.  A date is <<d>> *)
(* for day number d and NoDate when absent.                                *)
(***************************************************************************)
EXTENDS Integers, Sequences, FiniteSets, TLC

VARIABLES
    backend,    \* which store this process writes: "db" (desktop/CLI) or "rel" (API service)
    db,         \* embedded store: rows of the sqlite job_offers table, in insertion order
    rel,        \* relational store: rows of the JobOffer table, in insertion order
    relNextId,  \* next value of the JobOffer.id sequence
    call,       \* call[w]: the insert_offer call worker w is inside of
    ret,        \* ret[w]: "True"/"False" as w's last insert_offer call returned, "none" while it runs
    bg,         \* bg[t]: the background run of run_scrapers_task for task id t
    thr,        \* thr[t]: the worker threads run_scrapers_task has started for t
    scraping_results,   \* the task registry: task id -> record
    http,       \* the last response of a scrape endpoint
    today,      \* the current date (a day number)
    resp,       \* the last response of an offers endpoint
    handed,     \* the last scrape_page_by_page run: what it parsed and handed to its writer
    proc,       \* the desktop/CLI process started by main.py: where it is, its log, its exit
    config_file,    \* config_file[s]: the contents of the config.json of configuration store s
    loaded,     \* loaded[s]: what the last read of configuration store s gave its caller
    crawl,      \* the scrape_page_by_page run in progress: its loop variable, the listing pages it has requested
    gui         \* the desktop GUI's MainWindow: selection, filters, sort, the rendered offers, what it last opened

insertVars == <<backend, db, call, ret>>
scrapeVars == <<bg, thr, scraping_results, http>>
apiVars == <<today, resp>>
filterVars == <<handed>>
bootVars == <<proc, config_file, loaded>>
pagingVars == <<crawl>>
guiVars == <<gui>>
vars == <<insertVars, rel, relNextId, scrapeVars, apiVars, filterVars, bootVars, pagingVars, guiVars>>

\* What the actions of one part of the program leave alone
notInsert == <<scrapeVars, apiVars, filterVars, bootVars, pagingVars, guiVars>>
notScrape == <<insertVars, apiVars, filterVars, bootVars, pagingVars, guiVars>>
notApi == <<insertVars, scrapeVars, filterVars, bootVars, pagingVars, guiVars>>
notFilter == <<insertVars, rel, relNextId, scrapeVars, apiVars, bootVars, pagingVars, guiVars>>
notBoot == <<insertVars, rel, relNextId, scrapeVars, apiVars, filterVars, pagingVars, guiVars>>
notPaging == <<insertVars, rel, relNextId, scrapeVars, apiVars, filterVars, bootVars, guiVars>>
notGui == <<backend, call, ret, rel, relNextId, scrapeVars, apiVars, filterVars, bootVars, pagingVars>>

(***************************************************************************)
(* Text                                                                    *)
(***************************************************************************)
None == <<"None">>
NoDate == <<>>

\* str.lower() on one character
LowerChar(c) ==
    CASE c = "A" -> "a"
      [] c = "E" -> "e"
      [] c = "T" -> "t"
      [] c = "X" -> "x"
      [] OTHER -> c

\* str.lower()
Lower(s) == [i \in 1..Len(s) |-> LowerChar(s[i])]

\* Python truthiness of an optional text value: None and "" are falsy
Truthy(s) == s # None /\ s # <<>>

(***************************************************************************)
(* Offers handed to insert_offer: a dict with the keys the scrapers set.   *)
(***************************************************************************)
Offer(url, title, company, source) ==
    [url |-> url, title |-> title, company |-> company, source |-> source]

\* A row of the embedded store's job_offers table
DbRow(o) == [url |-> o.url, title |-> o.title, company |-> o.company, source |-> o.source]

\* A row of the relational store: JobOffer(...) built by DatabaseAdapter.insert_offer;
\* seen and scraped_at take their column defaults
AdapterRow(id, o) ==
    [id |-> id, url |-> o.url, title |-> o.title, company |-> o.company,
     technologies |-> None, valid_until |-> NoDate, source |-> o.source, seen |-> FALSE,
     scraped_at |-> <<today>>]

\* url TEXT UNIQUE: a row with this url is already in the table
UniqueViolation_NoIndex(rows, url) == FALSE
UniqueViolation(rows, url) == \E i \in 1..Len(rows) : rows[i].url = url

\* title, source (and url) NOT NULL
NotNullViolation(row) == row.url = None \/ row.title = None \/ row.source = None

\* The INSERT raises IntegrityError
IntegrityError(rows, row) == UniqueViolation(rows, row.url) \/ NotNullViolation(row)

\* SELECT 1 FROM job_offers WHERE url = ?  /  query(JobOffer).filter(url == url).first()
offer_exists(rows, url) == \E i \in 1..Len(rows) : rows[i].url = url

\* DatabaseAdapter.count_duplicates_by_company_title
count_duplicates_by_company_title(rows, company, title) ==
    IF ~Truthy(title) THEN 0
    ELSE Cardinality({i \in 1..Len(rows) :
            /\ rows[i].title # None
            /\ Lower(rows[i].title) = Lower(title)
            /\ IF Truthy(company)
               THEN rows[i].company # None /\ Lower(rows[i].company) = Lower(company)
               ELSE rows[i].company = None})

Idle == [pc |-> "idle"]

\* Number of scrape tasks started in one run of the process (a bound of the model)
MaxTasks == 1
TaskIds == 1..MaxTasks

\* Number of concurrent insert workers (a bound of the model)
NumWorkers == 2
Workers == 1..NumWorkers

Urls == {<<"u">>, <<"v">>}

\* Offers of the concurrent specification: two urls and a missing one, titles that
\* differ in case only
ConcOffers ==
    {Offer(u, t, <<"A">>, <<"p">>) : u \in Urls \cup {None}, t \in {<<"E">>, <<"e">>}}

\* Offers of the single-worker specification: every company/title shape a scraper yields
SeqOffers ==
    {Offer(u, t, c, <<"p">>) :
        u \in Urls \cup {None},
        t \in {<<>>, <<"E">>, <<"e">>, <<"X">>},
        c \in {None, <<>>, <<"A">>, <<"a">>}}

Return(w, value) ==
    /\ ret' = [ret EXCEPT ![w] = value]
    /\ call' = [call EXCEPT ![w] = Idle]

(***************************************************************************)
(* DatabaseManager.insert_offer (embedded store).  offer_exists and the    *)
(* INSERT each open their own connection, so another worker's insert can   *)
(* commit between them.                                                    *)
(***************************************************************************)
ManagerInsertCall(w, o) ==
    /\ backend = "db"
    /\ call[w] = Idle
    /\ call' = [call EXCEPT ![w] = [pc |-> "url", offer |-> o, check_duplicates |-> FALSE]]
    /\ ret' = [ret EXCEPT ![w] = "none"]
    /\ UNCHANGED <<backend, db, rel, relNextId>> /\ UNCHANGED notInsert

\* url = offer_data.get('url'); if not url ...; if self.offer_exists(url) ...
ManagerUrlCheck(w) ==
    /\ backend = "db"
    /\ call[w].pc = "url"
    /\ IF ~Truthy(call[w].offer.url) \/ offer_exists(db, call[w].offer.url)
       THEN Return(w, "False")
       ELSE call' = [call EXCEPT ![w].pc = "write"] /\ UNCHANGED ret
    /\ UNCHANGED <<backend, db, rel, relNextId>> /\ UNCHANGED notInsert

\* the INSERT and commit; IntegrityError is caught
ManagerWrite(w) ==
    /\ backend = "db"
    /\ call[w].pc = "write"
    /\ LET row == DbRow(call[w].offer)
       IN IF IntegrityError(db, row)
          THEN Return(w, "False") /\ UNCHANGED db
          ELSE Return(w, "True") /\ db' = Append(db, row)
    /\ UNCHANGED <<backend, rel, relNextId>> /\ UNCHANGED notInsert

(***************************************************************************)
(* DatabaseAdapter.insert_offer (relational store): the url query, the     *)
(* company+title count and the add/commit are three statements of the      *)
(* worker's own session.                                                   *)
(***************************************************************************)
AdapterInsertCall(w, o, cd) ==
    /\ backend = "rel"
    /\ call[w] = Idle
    /\ call' = [call EXCEPT ![w] = [pc |-> "url", offer |-> o, check_duplicates |-> cd]]
    /\ ret' = [ret EXCEPT ![w] = "none"]
    /\ UNCHANGED <<backend, db, rel, relNextId>> /\ UNCHANGED notInsert

AdapterUrlCheck(w) ==
    /\ backend = "rel"
    /\ call[w].pc = "url"
    /\ IF ~Truthy(call[w].offer.url) \/ offer_exists(rel, call[w].offer.url)
       THEN Return(w, "False")
       ELSE /\ call' = [call EXCEPT ![w].pc =
                            IF call[w].check_duplicates THEN "count" ELSE "write"]
            /\ UNCHANGED ret
    /\ UNCHANGED <<backend, db, rel, relNextId>> /\ UNCHANGED notInsert

AdapterCount(w) ==
    /\ backend = "rel"
    /\ call[w].pc = "count"
    /\ IF count_duplicates_by_company_title(rel, call[w].offer.company, call[w].offer.title) > 0
       THEN Return(w, "False")
       ELSE call' = [call EXCEPT ![w].pc = "write"] /\ UNCHANGED ret
    /\ UNCHANGED <<backend, db, rel, relNextId>> /\ UNCHANGED notInsert

\* db_session.add(offer); db_session.commit(); on an exception rollback and return False
AdapterWrite(w) ==
    /\ backend = "rel"
    /\ call[w].pc = "write"
    /\ LET row == AdapterRow(relNextId, call[w].offer)
       IN IF IntegrityError(rel, row)
          THEN Return(w, "False") /\ UNCHANGED <<rel, relNextId>>
          ELSE /\ Return(w, "True")
               /\ rel' = Append(rel, row)
               /\ relNextId' = relNextId + 1
    /\ UNCHANGED <<backend, db>> /\ UNCHANGED notInsert

\* The url existence query fails in the persistence layer (connection lost, statement
\* timeout): offer_exists is called outside insert_offer's try block, the exception
\* leaves insert_offer
AdapterUrlCheckFails(w) ==
    /\ backend = "rel"
    /\ call[w].pc = "url"
    /\ Truthy(call[w].offer.url)
    /\ Return(w, "raised")
    /\ UNCHANGED <<backend, db, rel, relNextId>> /\ UNCHANGED notInsert

\* The company+title count query fails: it too runs before the try block
AdapterCountFails(w) ==
    /\ backend = "rel"
    /\ call[w].pc = "count"
    /\ Truthy(call[w].offer.title)
    /\ Return(w, "raised")
    /\ UNCHANGED <<backend, db, rel, relNextId>> /\ UNCHANGED notInsert

\* add/commit fails: except Exception: rollback(); return False
AdapterWriteFails(w) ==
    /\ backend = "rel"
    /\ call[w].pc = "write"
    /\ Return(w, "False")
    /\ UNCHANGED <<backend, db, rel, relNextId>> /\ UNCHANGED notInsert

InsertStep(w) ==
    \/ ManagerUrlCheck(w)
    \/ ManagerWrite(w)
    \/ AdapterUrlCheck(w)
    \/ AdapterCount(w)
    \/ AdapterWrite(w)

(***************************************************************************)
(* The scrape orchestrator (routers/scrape.py)                             *)
(***************************************************************************)
\* config.sources of the start requests
SourceLists ==
    {<<>>, <<"pracuj_pl">>, <<"bogus", "justjoin_it">>, <<"nofluffjobs", "nofluffjobs">>}

Range(f) == {f[i] : i \in DOMAIN f}

\* The names run_scraper_for_source builds a scraper for
KnownSources_AnyName == {"pracuj_pl", "justjoin_it", "nofluffjobs", "bogus"}
KnownSources == {"pracuj_pl", "justjoin_it", "nofluffjobs"}

\* scraper.source_name: the class name unless the constructor overrides it
source_name(source) ==
    CASE source = "pracuj_pl" -> "PracujPlScraper"
      [] source = "justjoin_it" -> "JustJoinItScraper"
      [] OTHER -> "nofluffjobs"

\* The offer the portals list, stamped offer['source'] = self.source_name
ScrapeOffers(source) == {Offer(<<"u">>, <<"E">>, <<"A">>, <<source_name(source)>>)}

AllScrapeOffers == UNION {ScrapeOffers(source) : source \in KnownSources}

\* Positions in a task's thread list
ThreadIdx == UNION {DOMAIN sources : sources \in SourceLists}

\* DatabaseAdapter.insert_offer as one call: what it returns and the table after it
insert_offer(rows, nextId, o, cd) ==
    IF ~Truthy(o.url) \/ offer_exists(rows, o.url)
    THEN [ok |-> FALSE, rows |-> rows, nextId |-> nextId]
    ELSE IF cd /\ count_duplicates_by_company_title(rows, o.company, o.title) > 0
    THEN [ok |-> FALSE, rows |-> rows, nextId |-> nextId]
    ELSE IF IntegrityError(rows, AdapterRow(nextId, o))
    THEN [ok |-> FALSE, rows |-> rows, nextId |-> nextId]
    ELSE [ok |-> TRUE, rows |-> Append(rows, AdapterRow(nextId, o)), nextId |-> nextId + 1]

\* start_scrape: if not config.sources: raise HTTPException(400)
StartRejects_Never(sources) == FALSE
StartRejects(sources) == sources = <<>>

\* POST /api/scrape/start
start_scrape(sources) ==
    IF StartRejects(sources)
    THEN /\ http' = [op |-> "start", code |-> 400, task |-> 0]
         /\ UNCHANGED <<bg, thr, scraping_results, rel, relNextId>>
         /\ UNCHANGED notScrape
    ELSE \E t \in TaskIds :
            \* uuid.uuid4(): an id no task has had
            /\ bg[t].pc = "unissued"
            /\ \A u \in TaskIds : u < t => bg[u].pc # "unissued"
            \* background_tasks.add_task(run_scrapers_task, config, task_id)
            /\ bg' = [bg EXCEPT ![t] = [pc |-> "scheduled", sources |-> sources, i |-> 1]]
            /\ http' = [op |-> "start", code |-> 200, task |-> t]
            /\ UNCHANGED <<thr, scraping_results, rel, relNextId>> /\ UNCHANGED notScrape

\* GET /api/scrape/status/{task_id}: the registry's record as it is at this moment
get_scrape_status(t) ==
    /\ http' = [op |-> "status",
                code |-> IF t \in DOMAIN scraping_results THEN 200 ELSE 404,
                task |-> t,
                body |-> IF t \in DOMAIN scraping_results THEN <<scraping_results[t]>> ELSE <<>>]
    /\ UNCHANGED <<bg, thr, scraping_results, rel, relNextId>> /\ UNCHANGED notScrape

\* run_scrapers_task begins: the sources check and the registry entry
run_scrapers_task(t) ==
    /\ bg[t].pc = "scheduled"
    /\ IF bg[t].sources = <<>>
       THEN /\ bg' = [bg EXCEPT ![t].pc = "finished"]
            /\ UNCHANGED scraping_results
       ELSE /\ scraping_results' =
                (t :> [status |-> "running",
                       results |-> [s \in Range(bg[t].sources) |-> 0],
                       completed_at |-> FALSE]) @@ scraping_results
            /\ bg' = [bg EXCEPT ![t].pc = "spawning"]
    /\ UNCHANGED <<thr, http, rel, relNextId>> /\ UNCHANGED notScrape

\* for source in sources: db_session = SessionLocal(); thread.start()
SpawnThread(t) ==
    /\ bg[t].pc = "spawning"
    /\ IF bg[t].i <= Len(bg[t].sources)
       THEN /\ thr' = [thr EXCEPT ![t] = Append(@,
                        [pc |-> "run", source |-> bg[t].sources[bg[t].i], scraped |-> 0,
                         saved_count |-> 0, raised |-> FALSE, session |-> "open"])]
            /\ bg' = [bg EXCEPT ![t].i = @ + 1]
       ELSE /\ bg' = [bg EXCEPT ![t].pc = "joining", ![t].i = 1]
            /\ UNCHANGED thr
    /\ UNCHANGED <<scraping_results, http, rel, relNextId>> /\ UNCHANGED notScrape

\* thread.join() returns once the thread has ended
Joined_NoWait(t, i) == TRUE
Joined_Unraised(t, i) == thr[t][i].pc = "done" /\ ~thr[t][i].raised
Joined(t, i) == thr[t][i].pc = "done"

\* for thread in threads: thread.join()
JoinThread(t) ==
    /\ bg[t].pc = "joining"
    /\ IF bg[t].i <= Len(thr[t])
       THEN /\ Joined(t, bg[t].i)
            /\ bg' = [bg EXCEPT ![t].i = @ + 1]
       ELSE bg' = [bg EXCEPT ![t].pc = "marking"]
    /\ UNCHANGED <<thr, scraping_results, http, rel, relNextId>> /\ UNCHANGED notScrape

\* scraping_results[task_id]['status'] = 'completed'
MarkCompleted(t) ==
    /\ bg[t].pc = "marking"
    /\ scraping_results' = [scraping_results EXCEPT ![t].status = "completed"]
    /\ bg' = [bg EXCEPT ![t].pc = "stamping"]
    /\ UNCHANGED <<thr, http, rel, relNextId>> /\ UNCHANGED notScrape

\* scraping_results[task_id]['completed_at'] = datetime.now().isoformat()
StampCompleted(t) ==
    /\ bg[t].pc = "stamping"
    /\ scraping_results' = [scraping_results EXCEPT ![t].completed_at = TRUE]
    /\ bg' = [bg EXCEPT ![t].pc = "finished"]
    /\ UNCHANGED <<thr, http, rel, relNextId>> /\ UNCHANGED notScrape

\* run_scraper_for_source, unknown source: logger.error(...); return 0
WorkerUnknown(t, i) ==
    /\ i \in DOMAIN thr[t]
    /\ thr[t][i].pc = "run"
    /\ thr[t][i].source \notin KnownSources
    /\ thr' = [thr EXCEPT ![t][i].pc = "finally"]
    /\ UNCHANGED <<bg, scraping_results, http, rel, relNextId>> /\ UNCHANGED notScrape

\* scrape_page_by_page hands one offer to db_manager.insert_offer(offer)
WorkerScrape(t, i, o) ==
    /\ i \in DOMAIN thr[t]
    /\ thr[t][i].pc = "run"
    /\ thr[t][i].source \in KnownSources
    /\ o \in ScrapeOffers(thr[t][i].source)
    /\ LET r == insert_offer(rel, relNextId, o, TRUE)
       IN /\ rel' = r.rows
          /\ relNextId' = r.nextId
          /\ thr' = [thr EXCEPT ![t][i].scraped = IF r.ok THEN @ + 1 ELSE @]
    /\ UNCHANGED <<bg, scraping_results, http>> /\ UNCHANGED notScrape

\* saved_count = scraper.scrape_page_by_page(...)
WorkerReturn(t, i) ==
    /\ i \in DOMAIN thr[t]
    /\ thr[t][i].pc = "run"
    /\ thr[t][i].source \in KnownSources
    /\ thr' = [thr EXCEPT ![t][i].saved_count = thr[t][i].scraped, ![t][i].pc = "finally"]
    /\ UNCHANGED <<bg, scraping_results, http, rel, relNextId>> /\ UNCHANGED notScrape

\* except Exception as e: logger.error(...): the assignment to saved_count never ran
WorkerRaise(t, i) ==
    /\ i \in DOMAIN thr[t]
    /\ thr[t][i].pc = "run"
    /\ thr[t][i].source \in KnownSources
    /\ thr' = [thr EXCEPT ![t][i].pc = "finally", ![t][i].raised = TRUE]
    /\ UNCHANGED <<bg, scraping_results, http, rel, relNextId>> /\ UNCHANGED notScrape

\* finally: db_session.close(); if task_id in scraping_results:
\*     scraping_results[task_id]['results'][source_name] = saved_count
WorkerFinally(t, i) ==
    /\ i \in DOMAIN thr[t]
    /\ thr[t][i].pc = "finally"
    /\ scraping_results' =
        IF t \in DOMAIN scraping_results
        THEN [scraping_results EXCEPT ![t].results =
                (thr[t][i].source :> thr[t][i].saved_count) @@ @]
        ELSE scraping_results
    /\ thr' = [thr EXCEPT ![t][i].session = "closed", ![t][i].pc = "done"]
    /\ UNCHANGED <<bg, http, rel, relNextId>> /\ UNCHANGED notScrape

(***************************************************************************)
(* The configuration stores: ConfigManager (desktop/CLI tools) and         *)
(* routers/config.py (API service), each over its own config.json.  The    *)
(* file system accepts every write.                                        *)
(***************************************************************************)
Stores == {"desktop", "api"}

\* Contents of a config.json: no file, text that is not JSON, a JSON array ([1]) and a
\* JSON object
Absent == [kind |-> "absent"]
NotJson == [kind |-> "text"]
JsonArray == [kind |-> "array"]
JsonFile(doc) == [kind |-> "object", doc |-> doc]

\* The keys of the default documents the model keeps
DEFAULT_CONFIG(store) ==
    IF store = "desktop"
    THEN ("max_pages" :> 5 @@ "required_technologies" :> <<>> @@ "sources" :> <<"pracuj_pl">>)
    ELSE ("max_pages" :> 5 @@ "pracuj_pl_domain" :> "it" @@ "sources" :> <<"pracuj_pl">>)

\* Objects found in a config.json: no source, a source the CLI does not know, a key the
\* defaults do not have
FileDocs ==
    { ("sources" :> <<>>),
      ("sources" :> <<"justjoin_it", "nofluffjobs">>),
      ("max_pages" :> 1 @@ "unknown" :> "x") }

FileContents == {Absent, NotJson, JsonArray} \cup {JsonFile(doc) : doc \in FileDocs}

\* json.dump(config, f): the file holds the document
Written(config) == JsonFile(config)

\* merged = DEFAULT_CONFIG.copy(); merged.update(config)
Merged(store, config) == config @@ DEFAULT_CONFIG(store)

\* What a file that exists gives: json.load raises on text that is not JSON and
\* merged.update raises on [1]; both are caught and the default document returned, the
\* file left as it is
OnLoadError_Rewrite(store, file) == [doc |-> DEFAULT_CONFIG(store), file |-> Written(DEFAULT_CONFIG(store))]
OnLoadError(store, file) == [doc |-> DEFAULT_CONFIG(store), file |-> file]

\* ConfigManager._load_config: the document returned and the file left behind
ConfigManager_load_config(file) ==
    CASE file.kind = "object" -> [doc |-> Merged("desktop", file.doc), file |-> file]
      [] file.kind = "absent" -> [doc |-> DEFAULT_CONFIG("desktop"), file |-> Written(DEFAULT_CONFIG("desktop"))]
      [] OTHER -> OnLoadError("desktop", file)

\* load_config of routers/config.py
load_config(file) ==
    CASE file.kind = "object" -> [doc |-> Merged("api", file.doc), file |-> file]
      [] file.kind = "absent" -> [doc |-> DEFAULT_CONFIG("api"), file |-> Written(DEFAULT_CONFIG("api"))]
      [] OTHER -> OnLoadError("api", file)

NotLoaded == [op |-> "none"]
Answer(op, doc) == [op |-> op, doc |-> doc]

\* ConfigManager(): self.config = self._load_config()
ConfigManager_init ==
    LET r == ConfigManager_load_config(config_file["desktop"])
    IN  /\ config_file' = [config_file EXCEPT !["desktop"] = r.file]
        /\ loaded' = [loaded EXCEPT !["desktop"] = Answer("read", r.doc)]

\* The GUI's Save: self.config.update(updates); self.config.save_config()
ConfigManager_save_config(updates) ==
    /\ loaded["desktop"] # NotLoaded
    /\ LET config == updates @@ loaded["desktop"].doc
       IN  /\ config_file' = [config_file EXCEPT !["desktop"] = Written(config)]
           /\ loaded' = [loaded EXCEPT !["desktop"] = Answer("write", config)]
    /\ UNCHANGED proc /\ UNCHANGED notBoot

\* GET /api/config
get_config ==
    LET r == load_config(config_file["api"])
    IN  /\ config_file' = [config_file EXCEPT !["api"] = r.file]
        /\ loaded' = [loaded EXCEPT !["api"] = Answer("read", r.doc)]
        /\ UNCHANGED proc /\ UNCHANGED notBoot

\* The bodies PUT /api/config is called with: a Config has every field of the schema
ConfigBodies ==
    { [DEFAULT_CONFIG("api") EXCEPT !["sources"] = s, !["max_pages"] = m] :
        s \in {<<>>, <<"justjoin_it">>}, m \in {1, 5} }

\* PUT /api/config
update_config(config) ==
    /\ config_file' = [config_file EXCEPT !["api"] = Written(config)]
    /\ loaded' = [loaded EXCEPT !["api"] = Answer("write", config)]
    /\ UNCHANGED proc /\ UNCHANGED notBoot

\* The sources the GUI's dialog can save
GuiUpdates == {("sources" :> s) : s \in {<<"pracuj_pl">>, <<"pracuj_pl", "justjoin_it">>}}

(***************************************************************************)
(* main.py: the process entry point, run_gui and run_cli                   *)
(***************************************************************************)
\* The process has not been started
NoProcess == [pc |-> "none"]

\* python main.py [--cli]: the interpreter is about to run the module's imports
Started(cli) ==
    [pc |-> "import", cli |-> cli, gui |-> "untried", raised |-> "none", log |-> <<>>,
     headless |-> FALSE, threads |-> [w \in Workers |-> "unstarted"], exit |-> <<>>]

\* sys.exit(code), or the interpreter ending on an exception nothing caught (status 1)
Exit(code) == [proc EXCEPT !.pc = "exited", !.exit = <<code>>]

\* from nicegui import ui; from gui.main_window import MainWindow
ImportModules ==
    /\ proc.pc = "import"
    /\ \/ proc' = [proc EXCEPT !.pc = "main"]
       \/ proc' = [Exit(1) EXCEPT !.raised = "ImportError"]
    /\ UNCHANGED <<config_file, loaded>> /\ UNCHANGED notBoot

\* main(): if args.cli: run_cli() else: try: run_gui()
main ==
    /\ proc.pc = "main"
    /\ proc' = [proc EXCEPT !.pc = IF proc.cli THEN "run_cli" ELSE "run_gui"]
    /\ UNCHANGED <<config_file, loaded>> /\ UNCHANGED notBoot

\* run_gui(): MainWindow() and ui.run(...) go through; ui.run serves until shut down
GuiServes ==
    /\ proc.pc = "run_gui"
    /\ proc' = [proc EXCEPT !.pc = "serving", !.gui = "started"]
    /\ UNCHANGED <<config_file, loaded>> /\ UNCHANGED notBoot

\* ui.run returns, run_gui returns, main returns
GuiShutdown ==
    /\ proc.pc = "serving"
    /\ proc' = Exit(0)
    /\ UNCHANGED <<config_file, loaded>> /\ UNCHANGED notBoot

\* run_gui(): MainWindow() or ui.run(...) raises e; both handlers of run_gui log an
\* error and call sys.exit(1), which raises SystemExit
GuiFails(e) ==
    /\ proc.pc = "run_gui"
    /\ proc' = [proc EXCEPT !.pc = "raised", !.gui = "failed", !.raised = "SystemExit",
                            !.log = Append(@, "error")]
    /\ UNCHANGED <<config_file, loaded>> /\ UNCHANGED notBoot

\* isinstance(e, (ImportError, Exception)): SystemExit derives from BaseException only
IsException(e) == e \in {"ImportError", "Exception"}

\* main(): except (ImportError, Exception) as e: logger.warning(...); run_cli()
MainExcept ==
    /\ proc.pc = "raised"
    /\ proc' = IF IsException(proc.raised)
               THEN [proc EXCEPT !.pc = "run_cli", !.raised = "none", !.log = Append(@, "warning")]
               ELSE Exit(1)
    /\ UNCHANGED <<config_file, loaded>> /\ UNCHANGED notBoot

\* config.get('sources', ['pracuj_pl'])
Sources == loaded["desktop"].doc["sources"]

\* run_cli(): config = ConfigManager(); ...; if not sources: logger.error(...); return
run_cli ==
    /\ proc.pc = "run_cli"
    /\ ConfigManager_init
    /\ proc' = IF loaded'["desktop"].doc["sources"] = <<>>
               THEN [Exit(0) EXCEPT !.headless = TRUE, !.log = Append(@, "error")]
               ELSE [proc EXCEPT !.pc = "threads", !.headless = TRUE]
    /\ UNCHANGED notBoot

\* for source in sources: thread.start()
StartThread ==
    /\ proc.pc = "threads"
    /\ LET unstarted == {i \in 1..Len(Sources) : proc.threads[i] = "unstarted"}
       IN  IF unstarted = {}
           THEN proc' = [proc EXCEPT !.pc = "join"]
           ELSE LET i == CHOOSE i \in unstarted : \A j \in unstarted : i <= j
                IN  proc' = [proc EXCEPT !.threads[i] = "running"]
    /\ UNCHANGED <<config_file, loaded>> /\ UNCHANGED notBoot

\* The sources run_scraper_for_source of run_cli builds a scraper for
CliSources == {"pracuj_pl", "justjoin_it"}

\* run_scraper_for_source: the scraper of the source is built and its
\* scrape_page_by_page(keyword, max_pages, db, excluded_keywords) is entered
ThreadScrape(w) ==
    /\ proc.pc \in {"threads", "join"}
    /\ proc.threads[w] = "running"
    /\ Sources[w] \in CliSources
    /\ proc' = [proc EXCEPT !.threads[w] = "scraping"]
    /\ UNCHANGED <<config_file, loaded>> /\ UNCHANGED notBoot

\* else: logger.error(f"Unknown source: {source_name}"); return
ThreadUnknown(w) ==
    /\ proc.pc \in {"threads", "join"}
    /\ proc.threads[w] = "running"
    /\ Sources[w] \notin CliSources
    /\ proc' = [proc EXCEPT !.threads[w] = "unknown", !.log = Append(@, "error")]
    /\ UNCHANGED <<config_file, loaded>> /\ UNCHANGED notBoot

\* The scraper hands an offer to db.insert_offer
ThreadInsert(w, o) ==
    /\ proc.pc \in {"threads", "join"}
    /\ proc.threads[w] = "scraping"
    /\ ManagerInsertCall(w, o)

\* insert_offer goes on
ThreadStep(w) ==
    /\ proc.pc \in {"threads", "join"}
    /\ ManagerUrlCheck(w) \/ ManagerWrite(w)

\* run_scraper_for_source returns: the scraper is through, or an exception was caught
\* and logged
ThreadReturn(w) ==
    /\ proc.pc \in {"threads", "join"}
    /\ proc.threads[w] = "scraping"
    /\ call[w] = Idle
    /\ proc' = [proc EXCEPT !.threads[w] = "done"]
    /\ UNCHANGED <<config_file, loaded>> /\ UNCHANGED notBoot

\* for thread in threads: thread.join(); run_cli returns, main returns
JoinThreads ==
    /\ proc.pc = "join"
    /\ \A i \in 1..Len(Sources) : proc.threads[i] \in {"done", "unknown"}
    /\ proc' = Exit(0)
    /\ UNCHANGED <<config_file, loaded>> /\ UNCHANGED notBoot

\* No scrape_page_by_page run
NoCrawl == [pc |-> "none"]

\* No MainWindow
NoWindow == [pc |-> "none"]

\* No process, no configuration read
InitBoot ==
    /\ proc = NoProcess
    /\ config_file = [s \in Stores |-> Absent]
    /\ loaded = [s \in Stores |-> NotLoaded]

\* No task has been started
InitScrape ==
    /\ bg = [t \in TaskIds |-> [pc |-> "unissued"]]
    /\ thr = [t \in TaskIds |-> <<>>]
    /\ scraping_results = <<>>
    /\ http = [op |-> "none", code |-> 0, task |-> 0]

\* No request has been answered, nothing scraped
InitRest ==
    /\ today = 1
    /\ resp = [op |-> "none"]
    /\ handed = [scraper |-> "none"]
    /\ crawl = NoCrawl
    /\ gui = NoWindow
    /\ InitBoot

InitStores ==
    /\ db = <<>>
    /\ rel = <<>>
    /\ relNextId = 1
    /\ call = [w \in Workers |-> Idle]
    /\ ret = [w \in Workers |-> "none"]

(***************************************************************************)
(* SpecInsert: concurrent workers inserting into one store.                *)
(***************************************************************************)
InitInsert ==
    /\ InitRest
    /\ backend \in {"db", "rel"}
    /\ InitStores
    /\ InitScrape

NextInsert ==
    \E w \in Workers :
        \/ \E o \in ConcOffers : ManagerInsertCall(w, o)
        \/ \E o \in ConcOffers, cd \in BOOLEAN : AdapterInsertCall(w, o, cd)
        \/ InsertStep(w)

SpecInsert == InitInsert /\ [][NextInsert]_vars

(***************************************************************************)
(* SpecAdapterSeq: one worker calling DatabaseAdapter.insert_offer, one    *)
(* call after the other.                                                   *)
(***************************************************************************)
InitAdapterSeq ==
    /\ InitRest
    /\ backend = "rel"
    /\ InitStores
    /\ InitScrape

NextAdapterSeq ==
    \/ \E o \in SeqOffers, cd \in BOOLEAN : AdapterInsertCall(1, o, cd)
    \/ AdapterUrlCheck(1)
    \/ AdapterCount(1)
    \/ AdapterWrite(1)

SpecAdapterSeq == InitAdapterSeq /\ [][NextAdapterSeq]_vars

(***************************************************************************)
(* SpecAdapterChecked: concurrent scrape workers, each calling its own     *)
(* DatabaseAdapter's insert_offer with check_duplicates left at True.      *)
(***************************************************************************)
NextAdapterChecked ==
    \E w \in Workers :
        \/ \E o \in ConcOffers : AdapterInsertCall(w, o, TRUE)
        \/ AdapterUrlCheck(w)
        \/ AdapterCount(w)
        \/ AdapterWrite(w)

SpecAdapterChecked == InitAdapterSeq /\ [][NextAdapterChecked]_vars

(***************************************************************************)
(* SpecAdapterCheckedSeq: one worker, one checked insert_offer call after  *)
(* the other, on a store that starts empty.                                *)
(***************************************************************************)
NextAdapterCheckedSeq ==
    \/ \E o \in SeqOffers : AdapterInsertCall(1, o, TRUE)
    \/ AdapterUrlCheck(1)
    \/ AdapterCount(1)
    \/ AdapterWrite(1)

SpecAdapterCheckedSeq == InitAdapterSeq /\ [][NextAdapterCheckedSeq]_vars

(***************************************************************************)
(* SpecAdapterFaulty: workers calling DatabaseAdapter.insert_offer over a  *)
(* persistence layer whose statements can fail.                            *)
(***************************************************************************)
NextAdapterFaulty ==
    \E w \in Workers :
        \/ \E o \in ConcOffers, cd \in BOOLEAN : AdapterInsertCall(w, o, cd)
        \/ AdapterUrlCheck(w)
        \/ AdapterCount(w)
        \/ AdapterWrite(w)
        \/ AdapterUrlCheckFails(w)
        \/ AdapterCountFails(w)
        \/ AdapterWriteFails(w)

SpecAdapterFaulty == InitAdapterSeq /\ [][NextAdapterFaulty]_vars

(***************************************************************************)
(* SpecScrape: the API service's scrape endpoints, the background          *)
(* orchestrator runs and their worker threads.                             *)
(***************************************************************************)
InitScrapeService ==
    /\ InitRest
    /\ backend = "rel"
    /\ InitStores
    /\ InitScrape

NextScrape ==
    \/ \E sources \in SourceLists : start_scrape(sources)
    \/ \E t \in TaskIds \cup {0} : get_scrape_status(t)
    \/ \E t \in TaskIds :
        \/ run_scrapers_task(t)
        \/ SpawnThread(t)
        \/ JoinThread(t)
        \/ MarkCompleted(t)
        \/ StampCompleted(t)
        \/ \E i \in ThreadIdx :
            \/ WorkerUnknown(t, i)
            \/ \E o \in AllScrapeOffers : WorkerScrape(t, i, o)
            \/ WorkerReturn(t, i)
            \/ WorkerRaise(t, i)
            \/ WorkerFinally(t, i)

SpecScrape == InitScrapeService /\ [][NextScrape]_vars

\* The steps of the background run of task t
Orchestrate(t) ==
    \/ run_scrapers_task(t)
    \/ SpawnThread(t)
    \/ JoinThread(t)
    \/ MarkCompleted(t)
    \/ StampCompleted(t)

\* The steps by which worker i of task t leaves its scraper and its finally block
WorkerEnds(t, i) ==
    \/ WorkerUnknown(t, i)
    \/ WorkerReturn(t, i)
    \/ WorkerRaise(t, i)
    \/ WorkerFinally(t, i)

(***************************************************************************)
(* SpecScrapeFair: SpecScrape with the scheduling the runtime gives: the   *)
(* background run and the started threads keep being scheduled, and a      *)
(* scraper is through after at most max_pages fetches, each of which       *)
(* returns or times out.  Status polls change nothing but the last         *)
(* response and are left out.                                              *)
(***************************************************************************)
\* Some thread of task t that can take a step of its own takes one
Progress(t) == Orchestrate(t) \/ \E i \in ThreadIdx : WorkerEnds(t, i)

NextScrapeFair ==
    \/ \E sources \in SourceLists : start_scrape(sources)
    \/ \E t \in TaskIds :
        \/ Orchestrate(t)
        \/ \E i \in ThreadIdx :
            \/ \E o \in AllScrapeOffers : WorkerScrape(t, i, o)
            \/ WorkerEnds(t, i)

SpecScrapeFair ==
    /\ InitScrapeService
    /\ [][NextScrapeFair]_vars
    /\ \A t \in TaskIds : WF_vars(Progress(t))

(***************************************************************************)
(* The offers API (routers/offers.py): text and date helpers               *)
(***************************************************************************)
\* A key the JSON object or the CSV header does not have
Missing == <<"Missing">>

\* dict.get(key, default)
Get(v, default) == IF v = Missing THEN default ELSE v

SetMin(S) == CHOOSE x \in S : \A y \in S : x <= y
SetMax(S) == CHOOSE x \in S : \A y \in S : y <= x

\* str.strip()
Strip(s) ==
    LET idx == {i \in 1..Len(s) : s[i] # " "}
    IN  IF idx = {} THEN <<>> ELSE SubSeq(s, SetMin(idx), SetMax(idx))

RECURSIVE Split(_)
\* str.split(',')
Split(s) ==
    LET idx == {i \in 1..Len(s) : s[i] = ","}
    IN  IF idx = {} THEN <<s>>
        ELSE <<SubSeq(s, 1, SetMin(idx) - 1)>> \o Split(SubSeq(s, SetMin(idx) + 1, Len(s)))

\* [k.strip().lower() for k in param.split(',') if k.strip()]
Keywords(param) == {Lower(Strip(k)) : k \in Range(Split(param))} \ {<<>>}

\* needle in hay
Contains(hay, needle) ==
    \E i \in 0..(Len(hay) - Len(needle)) : SubSeq(hay, i + 1, i + Len(needle)) = needle

\* value or ''
OrEmpty(s) == IF Truthy(s) THEN s ELSE <<>>

\* f"{offer.title or ''} {offer.company or ''} {offer.technologies or ''}".lower()
search_text(row) ==
    Lower(OrEmpty(row.title) \o <<" ">> \o OrEmpty(row.company) \o <<" ">>
          \o OrEmpty(row.technologies))

\* The last day the clock reaches (a bound of the model)
MaxDay == 2
Days == 1..MaxDay

\* date.isoformat(): "YYYY-MM-DD"
isoformat(d) == <<"D", ToString(d[1])>>

\* datetime.isoformat(): "YYYY-MM-DDTHH:MM:SS+00:00"
datetime_isoformat(t) == <<"T", ToString(t[1])>>

\* A date written without zero padding ("2024-1-5"): strptime reads it, fromisoformat
\* does not
unpadded(d) == <<"d", ToString(d[1])>>

\* datetime.fromisoformat(text) succeeds: text is an ISO date or date-time
IsIso(text) ==
    /\ Len(text) = 2
    /\ text[1] \in {"D", "T"}
    /\ \E d \in Days : text[2] = ToString(d)

\* datetime.strptime(text, '%Y-%m-%d') succeeds
IsYmd(text) ==
    /\ Len(text) = 2
    /\ text[1] \in {"D", "d"}
    /\ \E d \in Days : text[2] = ToString(d)

DayOf(text) == CHOOSE d \in Days : text[2] = ToString(d)

\* valid_until of an imported record: fromisoformat(...).date(), else strptime(...).date(),
\* else None
parse_valid_until(v) ==
    IF ~Truthy(v) THEN NoDate
    ELSE IF IsIso(v) \/ IsYmd(v) THEN <<DayOf(v)>>
    ELSE NoDate

\* scraped_at of an imported record: fromisoformat(...), else None
parse_scraped_at(v) ==
    IF ~Truthy(v) THEN NoDate
    ELSE IF IsIso(v) THEN <<DayOf(v)>>
    ELSE NoDate

\* A JSON true / false
JBool(b) == IF b THEN <<"true">> ELSE <<"false">>

\* Code points in ascending order
Alphabet == <<" ", "A", "E", "X", "a", "e", "x">>
Rank(c) == CHOOSE i \in 1..Len(Alphabet) : Alphabet[i] = c

\* a < b for two texts of a String column, compared code point by code point
TextLess(a, b) ==
    \E k \in 1..Len(b) :
        /\ k - 1 <= Len(a)
        /\ \A i \in 1..(k - 1) : a[i] = b[i]
        /\ k > Len(a) \/ Rank(a[k]) < Rank(b[k])

(***************************************************************************)
(* GET /api/offers                                                         *)
(***************************************************************************)
\* Query(100, ...): the default page size
DefaultLimit == 100

Query(limit, offset, source, show_seen, sort_by, sort_order, selected_technologies, required_keywords, excluded_keywords) ==
    [limit |-> limit, offset |-> offset, source |-> source, show_seen |-> show_seen,
     sort_by |-> sort_by, sort_order |-> sort_order,
     selected_technologies |-> selected_technologies,
     required_keywords |-> required_keywords, excluded_keywords |-> excluded_keywords]

\* The requests of the model: the defaults, and each parameter set at least once
Queries ==
    { Query(DefaultLimit, 0, None, FALSE, "scraped_at", "desc", None, None, None),
      Query(1, 0, None, TRUE, "title", "asc", None, None, None),
      Query(1, 1, None, FALSE, "valid_until", "desc", None, None, None),
      Query(1, 0, None, TRUE, "scraped_at", "desc", None, None, None),
      Query(1, 1, None, TRUE, "scraped_at", "desc", None, None, None),
      Query(DefaultLimit, 0, <<"imported">>, TRUE, "company", "asc", None, None, None),
      Query(DefaultLimit, 0, None, TRUE, "scraped_at", "asc", None, <<"e">>, None),
      Query(DefaultLimit, 0, None, FALSE, "title", "desc", <<"X", ",", " ">>, None, <<"a", ",">>) }

\* if not show_seen: query.filter(JobOffer.seen == False)
SeenFilter_Off(show_seen, row) == TRUE
SeenFilter(show_seen, row) == show_seen \/ ~row.seen

\* or_(JobOffer.technologies.ilike(f'%{tech}%') for tech in tech_list)
TechFilter(selected_technologies, row) ==
    (Truthy(selected_technologies) /\ Keywords(selected_technologies) # {})
        => /\ row.technologies # None
           /\ \E tech \in Keywords(selected_technologies) :
                Contains(Lower(row.technologies), tech)

\* The WHERE clause of get_offers
Where(q, row) ==
    /\ Truthy(q.source) => row.source = q.source
    /\ SeenFilter(q.show_seen, row)
    /\ TechFilter(q.selected_technologies, row)

\* The keyword filters applied in memory
KeywordFilter(required_keywords, excluded_keywords, row) ==
    /\ (Truthy(required_keywords) /\ Keywords(required_keywords) # {})
            => \E kw \in Keywords(required_keywords) : Contains(search_text(row), kw)
    /\ (Truthy(excluded_keywords) /\ Keywords(excluded_keywords) # {})
            => ~\E kw \in Keywords(excluded_keywords) : Contains(search_text(row), kw)

\* The sort column is NULL in this row
NullKey(row, sort_by) ==
    CASE sort_by = "valid_until" -> row.valid_until = NoDate
      [] sort_by = "company" -> row.company = None
      [] OTHER -> FALSE

KeyLess(a, b, sort_by) ==
    CASE sort_by = "scraped_at" -> a.scraped_at[1] < b.scraped_at[1]
      [] sort_by = "valid_until" -> a.valid_until[1] < b.valid_until[1]
      [] sort_by = "title" -> TextLess(a.title, b.title)
      [] sort_by = "company" -> TextLess(a.company, b.company)

\* ORDER BY column ASC puts a strictly before b; NULLs sort as the largest value
Before(a, b, sort_by) ==
    /\ ~NullKey(a, sort_by)
    /\ NullKey(b, sort_by) \/ KeyLess(a, b, sort_by)

Perms(n) == {p \in [1..n -> 1..n] : \A i, j \in 1..n : p[i] = p[j] => i = j}

\* query.order_by(...).all(): every order of the rows the ORDER BY clause allows; rows
\* with equal keys come in any order, and so do all rows when there is no clause ("none")
Orderings(rows, sort_by, sort_order) ==
    LET n == Len(rows)
        ok(p) == \A i, j \in 1..n :
                    (i < j /\ sort_by # "none") =>
                        IF sort_order = "desc"
                        THEN ~Before(rows[p[i]], rows[p[j]], sort_by)
                        ELSE ~Before(rows[p[j]], rows[p[i]], sort_by)
    IN  {[i \in 1..n |-> rows[p[i]]] : p \in {p \in Perms(n) : ok(p)}}

\* all_matching_offers[offset:offset + limit]
Slice(s, offset, limit) == SubSeq(s, offset + 1, IF offset + limit < Len(s) THEN offset + limit ELSE Len(s))

get_offers(q) ==
    \E all_matching_offers \in
            Orderings(SelectSeq(rel, LAMBDA row : Where(q, row)), q.sort_by, q.sort_order) :
        LET filtered_offers ==
                SelectSeq(all_matching_offers,
                          LAMBDA row : KeywordFilter(q.required_keywords, q.excluded_keywords, row))
        IN  /\ resp' = [op |-> "get_offers", code |-> 200, request |-> q,
                        offers |-> Slice(filtered_offers, q.offset, q.limit)]
            /\ UNCHANGED <<rel, relNextId, today>> /\ UNCHANGED notApi

(***************************************************************************)
(* POST /api/offers/mark-seen and DELETE /api/offers/delete-expired        *)
(***************************************************************************)
\* The highest id the sequence hands out (a bound of the model)
MaxId == 4

\* offer_ids of the mark-seen and export requests
IdLists == {<<>>, <<2>>, <<1, 3>>}

mark_offers_seen(offer_ids) ==
    /\ rel' = [i \in 1..Len(rel) |->
                IF rel[i].id \in Range(offer_ids) THEN [rel[i] EXCEPT !.seen = TRUE] ELSE rel[i]]
    /\ resp' = [op |-> "mark_seen", code |-> 200, offer_ids |-> offer_ids,
                updated_count |-> Cardinality({i \in 1..Len(rel) : rel[i].id \in Range(offer_ids)})]
    /\ UNCHANGED <<relNextId, today>> /\ UNCHANGED notApi

\* JobOffer.valid_until < today; a NULL valid_until compares as unknown
Expired_Inclusive(row, day) == row.valid_until # NoDate /\ row.valid_until[1] <= day
Expired(row, day) == row.valid_until # NoDate /\ row.valid_until[1] < day

delete_expired_offers ==
    /\ rel' = SelectSeq(rel, LAMBDA row : ~Expired(row, today))
    /\ resp' = [op |-> "delete_expired", code |-> 200,
                deleted_count |-> Cardinality({i \in 1..Len(rel) : Expired(rel[i], today)})]
    /\ UNCHANGED <<relNextId, today>> /\ UNCHANGED notApi

\* The date changes
Tick ==
    /\ today < MaxDay
    /\ today' = today + 1
    /\ UNCHANGED <<rel, relNextId, resp>> /\ UNCHANGED notApi

(***************************************************************************)
(* POST /api/offers/export/json                                            *)
(***************************************************************************)
convert_offer_to_dict_NoUrl(offer) ==
    [kind |-> "object", id |-> <<offer.id>>, url |-> None, title |-> offer.title,
     company |-> offer.company, technologies |-> offer.technologies,
     valid_until |-> IF offer.valid_until # NoDate THEN isoformat(offer.valid_until) ELSE None,
     source |-> offer.source, seen |-> JBool(offer.seen),
     scraped_at |-> datetime_isoformat(offer.scraped_at)]

convert_offer_to_dict(offer) ==
    [kind |-> "object", id |-> <<offer.id>>, url |-> offer.url, title |-> offer.title,
     company |-> offer.company, technologies |-> offer.technologies,
     valid_until |-> IF offer.valid_until # NoDate THEN isoformat(offer.valid_until) ELSE None,
     source |-> offer.source, seen |-> JBool(offer.seen),
     scraped_at |-> datetime_isoformat(offer.scraped_at)]

\* ExportRequest; offer_ids is None unless given
ExportRequest(given, offer_ids, export_all, show_seen, sort_by, excluded_keywords) ==
    [given |-> given, offer_ids |-> offer_ids, export_all |-> export_all, source |-> None,
     show_seen |-> show_seen, sort_by |-> sort_by, sort_order |-> "desc",
     required_keywords |-> None, excluded_keywords |-> excluded_keywords]

ExportRequests ==
    { ExportRequest(FALSE, <<>>, TRUE, TRUE, "scraped_at", None),
      ExportRequest(TRUE, <<1, 3>>, FALSE, TRUE, "scraped_at", None),
      ExportRequest(FALSE, <<>>, FALSE, FALSE, "title", <<"x">>),
      ExportRequest(TRUE, <<>>, FALSE, FALSE, "scraped_at", <<"x">>) }

export_offers_json(request) ==
    LET selected == request.given /\ request.offer_ids # <<>>
        filters == ~selected /\ ~request.export_all
        where(row) ==
            IF selected THEN row.id \in Range(request.offer_ids)
            ELSE filters =>
                    /\ Truthy(request.source) => row.source = request.source
                    /\ request.show_seen \/ ~row.seen
        keywords(row) ==
            (~request.export_all /\ ~request.given)
                => KeywordFilter(request.required_keywords, request.excluded_keywords, row)
    IN  \E offers \in Orderings(SelectSeq(rel, where),
                                IF filters THEN request.sort_by ELSE "none",
                                request.sort_order) :
            LET filtered_offers == SelectSeq(offers, keywords)
            IN  /\ resp' = [op |-> "export_json", code |-> 200, request |-> request,
                            body |-> [i \in 1..Len(filtered_offers) |->
                                        convert_offer_to_dict(filtered_offers[i])]]
                /\ UNCHANGED <<rel, relNextId, today>> /\ UNCHANGED notApi

(***************************************************************************)
(* POST /api/offers/export/csv                                             *)
(***************************************************************************)
\* str(value) as csv.writer writes a bool
PyBool(b) == IF b THEN <<"T", "r", "u", "e">> ELSE <<"F", "a", "l", "s", "e">>

\* The line writer.writerow writes for an offer: '' for an absent value
CsvLine(offer) ==
    [id |-> <<ToString(offer.id)>>, url |-> offer.url, title |-> offer.title,
     company |-> OrEmpty(offer.company), technologies |-> OrEmpty(offer.technologies),
     valid_until |-> IF offer.valid_until # NoDate THEN isoformat(offer.valid_until) ELSE <<>>,
     source |-> offer.source, seen |-> PyBool(offer.seen),
     scraped_at |-> datetime_isoformat(offer.scraped_at)]

\* ExportRequest with selected_technologies, a list of names; the empty list stands for
\* None too, the handler tests the list for truth only
CsvExportRequest(given, offer_ids, export_all, selected_technologies, required_keywords) ==
    [given |-> given, offer_ids |-> offer_ids, export_all |-> export_all, source |-> None,
     show_seen |-> TRUE, sort_by |-> "scraped_at", sort_order |-> "desc",
     selected_technologies |-> selected_technologies,
     required_keywords |-> required_keywords, excluded_keywords |-> None]

CsvExportRequests ==
    { CsvExportRequest(FALSE, <<>>, FALSE, << <<"X", "E">> >>, None),
      CsvExportRequest(TRUE, <<>>, FALSE, <<>>, <<"a">>),
      CsvExportRequest(TRUE, <<2>>, FALSE, <<>>, <<"a">>) }

\* or_(JobOffer.technologies.ilike(f'%{tech.lower()}%') for tech in selected_technologies)
CsvTechFilter(selected_technologies, row) ==
    selected_technologies # <<>>
        => /\ row.technologies # None
           /\ \E k \in 1..Len(selected_technologies) :
                Contains(Lower(row.technologies), Lower(selected_technologies[k]))

export_offers_csv(request) ==
    LET selected == request.given /\ request.offer_ids # <<>>
        filters == ~selected /\ ~request.export_all
        where(row) ==
            IF selected THEN row.id \in Range(request.offer_ids)
            ELSE filters =>
                    /\ Truthy(request.source) => row.source = request.source
                    /\ request.show_seen \/ ~row.seen
                    /\ CsvTechFilter(request.selected_technologies, row)
        keywords(row) ==
            (~request.export_all /\ ~request.given)
                => KeywordFilter(request.required_keywords, request.excluded_keywords, row)
    IN  \E offers \in Orderings(SelectSeq(rel, where),
                                IF filters THEN request.sort_by ELSE "none",
                                request.sort_order) :
            LET filtered_offers == SelectSeq(offers, keywords)
            IN  /\ resp' = [op |-> "export_csv", code |-> 200, request |-> request,
                            body |-> [i \in 1..Len(filtered_offers) |->
                                        CsvLine(filtered_offers[i])]]
                /\ UNCHANGED <<rel, relNextId, today>> /\ UNCHANGED notApi

(***************************************************************************)
(* POST /api/offers/import/json and /import/csv.  The handler's session    *)
(* holds the rows it has added until it flushes them to the table; the     *)
(* table checks its constraints at the flush.                              *)
(***************************************************************************)
\* The session at the start of a request
Begin ==
    [rows |-> rel, pending |-> <<>>, nextId |-> relNextId, imported_count |-> 0,
     skipped_count |-> 0, error |-> "none"]

RECURSIVE flush(_)
\* The pending rows are inserted in the order they were added; each INSERT draws an id
flush(st) ==
    IF st.pending = <<>> THEN st
    ELSE LET row == [Head(st.pending) EXCEPT !.id = st.nextId]
         IN  IF IntegrityError(st.rows, row)
             THEN [st EXCEPT !.error = "IntegrityError", !.nextId = @ + 1]
             ELSE flush([st EXCEPT !.rows = Append(@, row), !.pending = Tail(@),
                                   !.nextId = @ + 1])

\* The session factory's autoflush setting (sessionmaker's default)
autoflush == TRUE

\* db.query(JobOffer).filter(JobOffer.url == url).first() runs after an autoflush
BeforeQuery(st) == IF autoflush THEN flush(st) ELSE st

\* JobOffer(url=url, title=offer_data.get('title', ''), ...) of import_offers_json; a
\* scraped_at of None leaves the column to its server default now()
JsonRow(offer_data) ==
    [id |-> 0, url |-> offer_data.url, title |-> Get(offer_data.title, <<>>),
     company |-> Get(offer_data.company, None),
     technologies |-> Get(offer_data.technologies, None),
     valid_until |-> parse_valid_until(Get(offer_data.valid_until, None)),
     source |-> Get(offer_data.source, <<"imported">>),
     seen |-> (Get(offer_data.seen, JBool(FALSE)) = JBool(TRUE)),
     scraped_at |-> IF parse_scraped_at(Get(offer_data.scraped_at, None)) = NoDate
                    THEN <<today>>
                    ELSE parse_scraped_at(Get(offer_data.scraped_at, None))]

\* One iteration of "for offer_data in offers_data"
JsonRecord(st, offer_data) ==
    IF st.error # "none" THEN st
    ELSE IF offer_data.kind # "object" THEN [st EXCEPT !.error = "AttributeError"]
    ELSE IF ~Truthy(Get(offer_data.url, None)) THEN [st EXCEPT !.skipped_count = @ + 1]
    ELSE LET q == BeforeQuery(st)
         IN  IF q.error # "none" THEN q
             ELSE IF offer_exists(q.rows, offer_data.url)
             THEN [q EXCEPT !.skipped_count = @ + 1]
             ELSE [q EXCEPT !.pending = Append(@, JsonRow(offer_data)),
                            !.imported_count = @ + 1]

RECURSIVE JsonRecords(_, _)
JsonRecords(st, offers_data) ==
    IF offers_data = <<>> THEN st
    ELSE JsonRecords(JsonRecord(st, Head(offers_data)), Tail(offers_data))

\* db.commit()
commit(st) == IF st.error # "none" THEN st ELSE flush(st)

\* db.rollback(): the table is as it was when the request began
rollback_Keep(st) == st.rows
rollback(st) == rel

\* The answer of an import handler and what it leaves in the table: the counts after the
\* commit, or a rollback and a server error; the ids drawn are not given back
ImportAnswer(op, st) ==
    /\ st.nextId <= MaxId + 1
    /\ relNextId' = st.nextId
    /\ IF st.error = "none"
       THEN /\ rel' = st.rows
            /\ resp' = [op |-> op, code |-> 200, imported_count |-> st.imported_count,
                        skipped_count |-> st.skipped_count]
       ELSE /\ rel' = rollback(st)
            /\ resp' = [op |-> op, code |-> 500]
    /\ UNCHANGED today /\ UNCHANGED notApi

\* An uploaded JSON file: text json.loads rejects, or the list it yields
Malformed == [valid |-> FALSE, records |-> <<>>]
Upload(records) == [valid |-> TRUE, records |-> records]

import_offers_json(file) ==
    IF file.valid
    THEN ImportAnswer("import_json", commit(JsonRecords(Begin, file.records)))
    ELSE /\ resp' = [op |-> "import_json", code |-> 400]
         /\ UNCHANGED <<rel, relNextId, today>> /\ UNCHANGED notApi

\* The client uploads the file it has just downloaded from the export endpoint
ImportExported ==
    /\ resp.op = "export_json"
    /\ import_offers_json(Upload(resp.body))

\* The operator empties the job_offers table
ClearStore ==
    /\ rel # <<>>
    /\ rel' = <<>>
    /\ UNCHANGED <<relNextId, today, resp>> /\ UNCHANGED notApi

(***************************************************************************)
(* GET /api/technologies                                                   *)
(***************************************************************************)
\* [t.strip() for t in offer.technologies.split(',') if t.strip()]
TechNames_NoStrip(technologies) == {t \in Range(Split(technologies)) : Strip(t) # <<>>}
TechNames(technologies) == {Strip(t) : t \in {t \in Range(Split(technologies)) : Strip(t) # <<>>}}

RECURSIVE sorted(_)
\* sorted(list(all_techs)): ascending by code point
sorted(S) ==
    IF S = {} THEN <<>>
    ELSE LET m == CHOOSE x \in S : \A y \in S \ {x} : TextLess(x, y)
         IN  <<m>> \o sorted(S \ {m})

get_technologies ==
    LET offers == SelectSeq(rel, LAMBDA row : row.technologies # None)
        all_techs == UNION {IF Truthy(offers[i].technologies)
                            THEN TechNames(offers[i].technologies)
                            ELSE {} : i \in 1..Len(offers)}
    IN  /\ resp' = [op |-> "technologies", code |-> 200, body |-> sorted(all_techs)]
        /\ UNCHANGED <<rel, relNextId, today>> /\ UNCHANGED notApi

\* One value of csv.DictReader for a row shorter than the header: restval None
Restval == None

\* JobOffer(url=url, title=row.get('title', ''), company=row.get('company') or None, ...)
\* of import_offers_csv
CsvRow(row, url) ==
    [id |-> 0, url |-> url, title |-> Get(row.title, <<>>),
     company |-> IF Truthy(Get(row.company, None)) THEN row.company ELSE None,
     technologies |-> IF Truthy(Get(row.technologies, None)) THEN row.technologies ELSE None,
     valid_until |-> parse_valid_until(Get(row.valid_until, None)),
     source |-> Get(row.source, <<"imported">>),
     seen |-> Lower(Get(row.seen, <<"F", "a", "l", "s", "e">>))
                \in {<<"t", "r", "u", "e">>, <<"1">>, <<"y", "e", "s">>},
     scraped_at |-> IF parse_scraped_at(Get(row.scraped_at, None)) = NoDate
                    THEN <<today>>
                    ELSE parse_scraped_at(Get(row.scraped_at, None))]

\* One iteration of "for row in csv_reader"; None has no strip() and no lower()
CsvRecord(st, row) ==
    IF st.error # "none" THEN st
    ELSE IF Get(row.url, <<>>) = None THEN [st EXCEPT !.error = "AttributeError"]
    ELSE IF ~Truthy(Strip(Get(row.url, <<>>))) THEN [st EXCEPT !.skipped_count = @ + 1]
    ELSE LET q == BeforeQuery(st)
         IN  IF q.error # "none" THEN q
             ELSE IF offer_exists(q.rows, Strip(row.url))
             THEN [q EXCEPT !.skipped_count = @ + 1]
             ELSE IF Get(row.seen, <<>>) = None THEN [q EXCEPT !.error = "AttributeError"]
             ELSE [q EXCEPT !.pending = Append(@, CsvRow(row, Strip(row.url))),
                            !.imported_count = @ + 1]

RECURSIVE CsvRecords(_, _)
CsvRecords(st, rows) ==
    IF rows = <<>> THEN st
    ELSE CsvRecords(CsvRecord(st, Head(rows)), Tail(rows))

import_offers_csv(rows) ==
    ImportAnswer("import_csv", commit(CsvRecords(Begin, rows)))

\* A record of a JSON upload: an object with these keys
JsonObject(url, title, company, technologies, valid_until, seen) ==
    [kind |-> "object", id |-> Missing, url |-> url, title |-> title, company |-> company,
     technologies |-> technologies, valid_until |-> valid_until, source |-> Missing,
     seen |-> seen, scraped_at |-> Missing]

\* A record of a JSON upload that is not an object
JsonScalar == [kind |-> "scalar"]

\* The record with a scraped_at of the first day
Stamped(record) == [record EXCEPT !.scraped_at = datetime_isoformat(<<1>>)]

\* The JSON uploads of the model
JsonFiles ==
    { Upload(<< Stamped(JsonObject(<<"u">>, <<"E">>, <<"A">>, Missing, isoformat(<<1>>), Missing)),
                JsonObject(Missing, <<"E">>, None, Missing, Missing, Missing),
                Stamped(JsonObject(<<"v">>, <<"e">>, None, <<"x", "e", ",", " ", "X", "E", ",">>, isoformat(<<2>>), JBool(TRUE))) >>),
      Upload(<< JsonObject(<<>>, <<"X">>, Missing, Missing, Missing, Missing),
                JsonObject(<<"w">>, <<"X">>, <<"a">>, <<"X", "e", ",", "x", "e", " ">>, <<"?">>, JBool(FALSE)),
                JsonObject(<<"w">>, <<"e">>, Missing, Missing, unpadded(<<1>>), Missing) >>),
      Upload(<< JsonObject(None, <<"E">>, Missing, Missing, Missing, Missing),
                JsonObject(<<"v">>, None, Missing, Missing, Missing, Missing) >>),
      Upload(<< Stamped(JsonObject(<<"u">>, <<"E">>, <<"A">>, Missing, isoformat(<<1>>), Missing)),
                Stamped(JsonObject(<<"v">>, <<"e">>, None, Missing, Missing, Missing)),
                JsonScalar >>),
      Malformed }

\* A row of a CSV upload as csv.DictReader yields it
CsvDict(url, title, valid_until, seen) ==
    [url |-> url, title |-> title, company |-> <<>>, technologies |-> Missing,
     valid_until |-> valid_until, source |-> Missing, seen |-> seen, scraped_at |-> Missing]

\* The line "7" under the header "id,url,title,...": every column after the first is None
CsvShortRow ==
    [url |-> Restval, title |-> Restval, company |-> Restval, technologies |-> Restval,
     valid_until |-> Restval, source |-> Restval, seen |-> Restval, scraped_at |-> Restval]

\* The CSV uploads of the model
CsvFiles ==
    { << CsvDict(<<" ">>, <<"E">>, <<>>, <<"1">>),
         Stamped(CsvDict(<<" ", "u">>, <<"E">>, isoformat(<<1>>), <<"T", "r", "u", "e">>)),
         CsvDict(<<>>, <<"e">>, <<>>, Missing) >>,
      << CsvDict(<<"v">>, <<"e">>, unpadded(<<2>>), <<>>), CsvShortRow >>,
      << CsvDict(Missing, <<"X">>, <<>>, <<>>) >> }

(***************************************************************************)
(* SpecOffers: the offers endpoints of the API service, the clock and the  *)
(* operator emptying the table.                                            *)
(***************************************************************************)
InitOffers ==
    /\ InitRest
    /\ backend = "rel"
    /\ InitStores
    /\ InitScrape

NextOffers ==
    \/ \E q \in Queries : get_offers(q)
    \/ \E offer_ids \in IdLists : mark_offers_seen(offer_ids)
    \/ delete_expired_offers
    \/ \E request \in ExportRequests : export_offers_json(request)
    \/ \E request \in CsvExportRequests : export_offers_csv(request)
    \/ \E file \in JsonFiles : import_offers_json(file)
    \/ ImportExported
    \/ \E rows \in CsvFiles : import_offers_csv(rows)
    \/ get_technologies
    \/ ClearStore
    \/ Tick

SpecOffers == InitOffers /\ [][NextOffers]_vars

(***************************************************************************)
(* The scrapers' scrape_page_by_page: parsing what the portal lists and    *)
(* the excluded-keyword filter in front of db_manager.insert_offer.  The   *)
(* labels the parsers put into a description are single tokens here.       *)
(***************************************************************************)
\* What a portal lists for one offer: a title, a category or body text, technologies
Item(url, title, category, technologies) ==
    [url |-> url, title |-> title, category |-> category, technologies |-> technologies]

Items ==
    {Item(url, title, category, technologies) :
        url \in Urls, title \in {<<"E">>, <<"a">>},
        category \in {None, Missing, <<"x">>}, technologies \in {None, <<"X">>}}

\* One listing page: one offer, or two with different urls
Pages ==
    {<<i>> : i \in Items}
        \cup {<<i, j>> : i \in {x \in Items : x.url = <<"u">> /\ x.category # Missing},
                         j \in {x \in Items : x.url = <<"v">> /\ x.category # None}}

\* config.excluded_keywords
ExcludedLists == {<<>>, << <<"X">> >>, << <<"e">>, <<"a">> >>}

RECURSIVE Join(_)
\* " | ".join(parts)
Join(parts) ==
    IF parts = <<>> THEN <<>>
    ELSE IF Len(parts) = 1 THEN parts[1]
    ELSE parts[1] \o <<" ", "|", " ">> \o Join(Tail(parts))

\* A value that is present and not empty
Given(v) == v # Missing /\ Truthy(v)

\* BaseScraper.scrape(): the dicts of an implementation that has no page-by-page method
\* of its own; it leaves out the description key when the portal gives none
BaseOffer(item) ==
    [url |-> item.url, title |-> item.title,
     description |-> IF Given(item.category) THEN item.category ELSE Missing,
     technologies |-> item.technologies]

\* PracujPlScraper.parse_offer
PracujOffer(item) ==
    [url |-> item.url, title |-> item.title,
     description |-> IF Given(item.category) THEN item.category ELSE <<>>,
     technologies |-> item.technologies]

\* JustJoinItScraper._parse_api_offer
JustJoinOffer(item) ==
    LET technologies == IF Given(item.technologies) THEN item.technologies ELSE <<>>
        description_parts ==
            (IF Given(item.title) THEN << <<"Position: ">> \o item.title >> ELSE <<>>)
            \o (IF technologies # <<>> THEN << <<"Technologies: ">> \o technologies >> ELSE <<>>)
            \o (IF Given(item.category)
                THEN << <<"Experience level: ">> \o item.category >> ELSE <<>>)
    IN  [url |-> item.url, title |-> item.title, description |-> Join(description_parts),
         technologies |-> technologies]

\* NoFluffJobsScraper._parse_api_posting
NoFluffOffer(item) ==
    LET technologies_str == IF Given(item.technologies) THEN item.technologies ELSE None
        description_parts ==
            (IF Given(item.category) THEN << <<"Kategoria: ">> \o item.category >> ELSE <<>>)
            \o (IF technologies_str # None
                THEN << <<"Technologie: ">> \o technologies_str >> ELSE <<>>)
    IN  [url |-> item.url, title |-> item.title,
         description |-> IF description_parts # <<>> THEN Join(description_parts) ELSE None,
         technologies |-> technologies_str]

\* offer.get(key, '').lower() raises AttributeError: the key is there and holds None
LowerRaises(v) == v = None

\* offer.get(key, '').lower()
GetLower(v) == Lower(Get(v, <<>>))

\* any(excluded.lower() in text for text in texts) for some excluded keyword
should_exclude(excluded_keywords, texts) ==
    \E k \in 1..Len(excluded_keywords) :
        \E text \in texts : Contains(text, Lower(excluded_keywords[k]))

\* The body of the per-offer try block of PracujPlScraper and JustJoinItScraper:
\* "hand" (insert_offer is called), "skip" (continue) or "error" (the except clause)
FilterTitleDescription(offer, excluded_keywords) ==
    IF LowerRaises(offer.title) \/ LowerRaises(offer.description) THEN "error"
    ELSE IF should_exclude(excluded_keywords,
                           {GetLower(offer.title), GetLower(offer.description)})
    THEN "skip"
    ELSE "hand"

\* The same of NoFluffJobsScraper, which also lowers and searches technologies
FilterWithTechnologies(offer, excluded_keywords) ==
    IF LowerRaises(offer.title) \/ LowerRaises(offer.description)
            \/ LowerRaises(offer.technologies)
    THEN "error"
    ELSE IF should_exclude(excluded_keywords,
                           {GetLower(offer.title), GetLower(offer.description),
                            GetLower(offer.technologies)})
    THEN "skip"
    ELSE "hand"

\* What one run leaves behind: the offers parsed and the offers handed to the writer
Run(scraper, excluded_keywords, parsed, offers, raised) ==
    [scraper |-> scraper, excluded_keywords |-> excluded_keywords, parsed |-> parsed,
     offers |-> offers, raised |-> raised]

\* BaseScraper.scrape_page_by_page: the filter loop has no try block, and the offers are
\* handed over only after it has finished
BaseScraper_scrape_page_by_page(page, excluded_keywords) ==
    LET offers == [i \in 1..Len(page) |-> BaseOffer(page[i])]
        raised == \E i \in 1..Len(offers) :
                    FilterTitleDescription(offers[i], excluded_keywords) = "error"
        filtered_offers ==
            SelectSeq(offers, LAMBDA o : FilterTitleDescription(o, excluded_keywords) = "hand")
    IN  /\ handed' = Run("BaseScraper", excluded_keywords, offers,
                         IF raised THEN <<>> ELSE filtered_offers, raised)
        /\ UNCHANGED notFilter

PracujPlScraper_scrape_page_by_page(page, excluded_keywords) ==
    LET offers == [i \in 1..Len(page) |-> PracujOffer(page[i])]
    IN  /\ handed' = Run("PracujPlScraper", excluded_keywords, offers,
                         SelectSeq(offers, LAMBDA o :
                                FilterTitleDescription(o, excluded_keywords) = "hand"),
                         FALSE)
        /\ UNCHANGED notFilter

JustJoinItScraper_scrape_page_by_page(page, excluded_keywords) ==
    LET offers == [i \in 1..Len(page) |-> JustJoinOffer(page[i])]
    IN  /\ handed' = Run("JustJoinItScraper", excluded_keywords, offers,
                         SelectSeq(offers, LAMBDA o :
                                FilterTitleDescription(o, excluded_keywords) = "hand"),
                         FALSE)
        /\ UNCHANGED notFilter

NoFluffJobsScraper_scrape_page_by_page(page, excluded_keywords) ==
    LET offers == [i \in 1..Len(page) |-> NoFluffOffer(page[i])]
    IN  /\ handed' = Run("NoFluffJobsScraper", excluded_keywords, offers,
                         SelectSeq(offers, LAMBDA o :
                                FilterWithTechnologies(o, excluded_keywords) = "hand"),
                         FALSE)
        /\ UNCHANGED notFilter

(***************************************************************************)
(* SpecFilter: runs of the four scrape_page_by_page implementations.       *)
(***************************************************************************)
InitFilter ==
    /\ InitRest
    /\ backend = "rel"
    /\ InitStores
    /\ InitScrape

NextFilter ==
    \E page \in Pages, excluded_keywords \in ExcludedLists :
        \/ BaseScraper_scrape_page_by_page(page, excluded_keywords)
        \/ PracujPlScraper_scrape_page_by_page(page, excluded_keywords)
        \/ JustJoinItScraper_scrape_page_by_page(page, excluded_keywords)
        \/ NoFluffJobsScraper_scrape_page_by_page(page, excluded_keywords)

SpecFilter == InitFilter /\ [][NextFilter]_vars

(***************************************************************************)
(* The listing pages a scrape_page_by_page run requests.  One step is one  *)
(* pass of the loop: the listing request, its outcome, and the decision to *)
(* go on; what the pass does with the offers of the page is modelled by    *)
(* the *_scrape_page_by_page definitions above.                            *)
(***************************************************************************)
\* The largest max_pages of the model (a bound of the model)
PagesBound == 3

\* items_per_page = 100 of JustJoinItScraper, page_size=100 of NoFluffJobsScraper
items_per_page == 100

\* What a listing request gives: None (a failed fetch, logged and swallowed by _get_page
\* and _make_api_request), or a page with this many items
Fetches ==
    {[ok |-> FALSE, items |-> 0]} \cup {[ok |-> TRUE, items |-> n] : n \in {0, 1, items_per_page - 1, items_per_page}}

\* scrape_page_by_page is entered: page = 1 (pracuj.pl, NoFluffJobs), offset 0 (JustJoin.it)
BeginCrawl(scraper, max_pages, first, last) ==
    /\ crawl = NoCrawl
    /\ crawl' = [pc |-> IF first <= last THEN "loop" ELSE "done", scraper |-> scraper,
                 max_pages |-> max_pages, at |-> first, requested |-> <<>>]
    /\ UNCHANGED notPaging

\* The listing request of this pass and what it gave
Request(got) == Append(crawl.requested, [at |-> crawl.at, ok |-> got.ok, items |-> got.items])

\* while page <= max_pages: ... if not soup: break ... if not offer_links: break ... page += 1
PracujPlScraper_listing ==
    /\ crawl.pc = "loop" /\ crawl.scraper = "PracujPlScraper"
    /\ \E got \in Fetches :
        LET break == ~got.ok \/ got.items = 0
        IN  crawl' = [crawl EXCEPT
                        !.requested = Request(got),
                        !.at = IF break THEN @ ELSE @ + 1,
                        !.pc = IF break \/ ~(crawl.at + 1 <= crawl.max_pages)
                               THEN "done" ELSE "loop"]
    /\ UNCHANGED notPaging

\* if len(offers) < items_per_page: break
EndOfResults_Never(items) == FALSE
EndOfResults(items) == items < items_per_page

\* for offset in range(0, max_pages * items_per_page, items_per_page): ...
JustJoinItScraper_listing ==
    /\ crawl.pc = "loop" /\ crawl.scraper = "JustJoinItScraper"
    /\ \E got \in Fetches :
        LET break == ~got.ok \/ got.items = 0 \/ EndOfResults(got.items)
        IN  crawl' = [crawl EXCEPT
                        !.requested = Request(got),
                        !.at = IF break THEN @ ELSE @ + items_per_page,
                        !.pc = IF break \/ ~(crawl.at + items_per_page
                                                < crawl.max_pages * items_per_page)
                               THEN "done" ELSE "loop"]
    /\ UNCHANGED notPaging

\* for page in range(1, max_pages + 1): ...
NoFluffJobsScraper_listing ==
    /\ crawl.pc = "loop" /\ crawl.scraper = "NoFluffJobsScraper"
    /\ \E got \in Fetches :
        LET break == ~got.ok \/ got.items = 0 \/ EndOfResults(got.items)
        IN  crawl' = [crawl EXCEPT
                        !.requested = Request(got),
                        !.at = IF break THEN @ ELSE @ + 1,
                        !.pc = IF break \/ ~(crawl.at + 1 < crawl.max_pages + 1)
                               THEN "done" ELSE "loop"]
    /\ UNCHANGED notPaging

\* return saved_count
EndCrawl ==
    /\ crawl.pc = "done"
    /\ crawl' = NoCrawl
    /\ UNCHANGED notPaging

InitPaging ==
    /\ InitRest
    /\ backend = "rel"
    /\ InitStores
    /\ InitScrape

NextPaging ==
    \/ \E max_pages \in 0..PagesBound :
            \/ BeginCrawl("PracujPlScraper", max_pages, 1, max_pages)
            \/ BeginCrawl("JustJoinItScraper", max_pages, 0, max_pages * items_per_page - 1)
            \/ BeginCrawl("NoFluffJobsScraper", max_pages, 1, max_pages)
    \/ PracujPlScraper_listing
    \/ JustJoinItScraper_listing
    \/ NoFluffJobsScraper_listing
    \/ EndCrawl

SpecPaging == InitPaging /\ [][NextPaging]_vars

(***************************************************************************)
(* The desktop GUI's offers panel (MainWindow): the selection, the filters *)
(* and the sort order are fields of the window; offers_data is the list    *)
(* the last _refresh_offers_list rendered.                                 *)
(***************************************************************************)
\* A row of the embedded store as db.get_offers returns it
GuiOffer(id, url, title, company, technologies, valid_until) ==
    [id |-> id, url |-> url, title |-> title, company |-> company, description |-> <<>>,
     technologies |-> technologies, valid_until |-> valid_until, scraped_at |-> <<id>>]

\* The embedded store of the model, in insertion order
StoredOffers ==
    << GuiOffer(1, <<"u">>, <<"E">>, <<"A">>, <<"X", "e">>, <<2>>),
       GuiOffer(2, <<"v">>, <<"e">>, <<"x">>, <<"a", ",", " ", "X", "e">>, NoDate),
       GuiOffer(3, <<"w">>, <<"X">>, <<"e">>, None, <<1>>) >>

\* db.get_offers(limit=500) of _refresh_offers_list, limit=10000 of deselect_all
RefreshLimit == 500
DeselectLimit == 10000

\* DatabaseManager.get_offers(limit): ORDER BY scraped_at DESC LIMIT ?
DatabaseManager_get_offers(limit) ==
    LET n == IF Len(db) < limit THEN Len(db) ELSE limit
    IN  [k \in 1..n |-> db[Len(db) + 1 - k]]

\* The names the technology dialog lists: the trimmed names of the stored offers
TechChoices ==
    UNION {TechNames(db[k].technologies) : k \in {k \in 1..Len(db) : Truthy(db[k].technologies)}}

\* if self.selected_technologies: keep the offers carrying one of the names
GuiTechFilter(offer, selected_technologies) ==
    selected_technologies # {} =>
        /\ Truthy(offer.technologies)
        /\ \E t \in TechNames(offer.technologies) :
                Lower(t) \in {Lower(x) : x \in selected_technologies}

\* if self.required_keywords_filter: title, description, company and technologies
GuiRequired(offer, required) ==
    required # {} =>
        \E req_kw \in required :
            Contains(Lower(offer.title) \o <<" ">> \o Lower(offer.description) \o <<" ">>
                     \o Lower(offer.company) \o <<" ">> \o Lower(OrEmpty(offer.technologies)),
                     req_kw)

\* if self.excluded_keywords_filter: title, description and company
GuiExcluded(offer, excluded) ==
    \E kw \in excluded :
        \/ Contains(Lower(offer.title), kw)
        \/ Contains(Lower(offer.description), kw)
        \/ Contains(Lower(offer.company), kw)

\* get_sort_key(a) < get_sort_key(b).  scraped_at is the text datetime.now().isoformat()
\* wrote, which strptime(..., '%Y-%m-%d %H:%M:%S') rejects: every key is datetime.min
get_sort_key_less(a, b, sort_by) ==
    CASE sort_by = "scraped_at" -> FALSE
      [] sort_by = "valid_until" ->
            (IF a.valid_until = NoDate THEN 0 ELSE a.valid_until[1])
                < (IF b.valid_until = NoDate THEN 0 ELSE b.valid_until[1])
      [] sort_by = "title" -> TextLess(Lower(a.title), Lower(b.title))
      [] sort_by = "company" -> TextLess(Lower(a.company), Lower(b.company))

\* offers.sort(key=get_sort_key, reverse=(sort_order == 'desc')): stable both ways
list_sort(offers, sort_by, sort_order) ==
    LET n == Len(offers)
        before(i, j) == IF sort_order = "desc"
                        THEN get_sort_key_less(offers[j], offers[i], sort_by)
                        ELSE get_sort_key_less(offers[i], offers[j], sort_by)
        pos(i) == Cardinality({j \in 1..n : before(j, i) \/ (~before(i, j) /\ j < i)}) + 1
    IN  [k \in 1..n |-> offers[CHOOSE i \in 1..n : pos(i) = k]]

\* What _refresh_offers_list renders for these fields of the window
Rendered(g) ==
    LET offers == DatabaseManager_get_offers(RefreshLimit)
        kept(offer) ==
            /\ GuiTechFilter(offer, g.selected_technologies)
            /\ GuiRequired(offer, g.required_keywords_filter)
            /\ ~GuiExcluded(offer, g.excluded_keywords_filter)
    IN  list_sort(SelectSeq(offers, kept), g.sort_by, g.sort_order)

\* self._refresh_offers_list() after the handler has changed the window to g
Refreshed(g) == [g EXCEPT !.offers_data = Rendered(g)]

\* MainWindow(): the fields of __init__, then _create_ui renders the list
MainWindow ==
    /\ gui = NoWindow
    /\ gui' = Refreshed([pc |-> "open", selected_offers |-> {}, offers_data |-> <<>>,
                         selected_technologies |-> {}, required_keywords_filter |-> {},
                         excluded_keywords_filter |-> {}, sort_by |-> "scraped_at",
                         sort_order |-> "desc", opened |-> <<>>, notify |-> "none"])
    /\ UNCHANGED db /\ UNCHANGED notGui

\* The ids of the offers on the screen
RenderedIds == {gui.offers_data[k].id : k \in 1..Len(gui.offers_data)}

\* The refresh button
refresh_offers_list ==
    /\ gui.pc = "open"
    /\ gui' = Refreshed(gui)
    /\ UNCHANGED db /\ UNCHANGED notGui

\* A click on the card of offer oid
card_click_handler(oid) ==
    /\ gui.pc = "open" /\ oid \in RenderedIds
    /\ gui' = [gui EXCEPT !.selected_offers = IF oid \in @ THEN @ \ {oid} ELSE @ \cup {oid}]
    /\ UNCHANGED db /\ UNCHANGED notGui

\* The checkbox of offer oid changes to value
on_checkbox_change(oid, value) ==
    /\ gui.pc = "open" /\ oid \in RenderedIds
    /\ gui' = [gui EXCEPT !.selected_offers = IF value THEN @ \cup {oid} ELSE @ \ {oid}]
    /\ UNCHANGED db /\ UNCHANGED notGui

\* for offer in self.offers_data: self.selected_offers.add(offer['id'])
select_all ==
    /\ gui.pc = "open"
    /\ gui' = Refreshed([gui EXCEPT !.selected_offers = @ \cup RenderedIds])
    /\ UNCHANGED db /\ UNCHANGED notGui

\* for offer in self.db.get_offers(limit=10000): self.selected_offers.discard(offer.get('id'))
deselect_all ==
    /\ gui.pc = "open"
    /\ LET all_offers == DatabaseManager_get_offers(DeselectLimit)
       IN  gui' = Refreshed([gui EXCEPT !.selected_offers =
                                @ \ {all_offers[k].id : k \in 1..Len(all_offers)}])
    /\ UNCHANGED db /\ UNCHANGED notGui

\* [offer['url'] for offer in self.offers_data if offer['id'] in self.selected_offers]
selected_urls(g) ==
    LET chosen == SelectSeq(g.offers_data, LAMBDA offer : offer.id \in g.selected_offers)
    IN  [k \in 1..Len(chosen) |-> chosen[k].url]

\* ui.open(url, new_tab=True) for each of them; the notice carries their number
open_selected ==
    /\ gui.pc = "open"
    /\ IF gui.selected_offers = {}
       THEN gui' = [gui EXCEPT !.opened = <<>>, !.notify = "warning"]
       ELSE gui' = [gui EXCEPT !.opened = selected_urls(gui), !.notify = "info"]
    /\ UNCHANGED db /\ UNCHANGED notGui

\* A click on a name in the technology dialog: the set changes at once, the list does not
toggle_tech(tech_name) ==
    /\ gui.pc = "open" /\ tech_name \in TechChoices
    /\ gui' = [gui EXCEPT !.selected_technologies =
                    IF tech_name \in @ THEN @ \ {tech_name} ELSE @ \cup {tech_name}]
    /\ UNCHANGED db /\ UNCHANGED notGui

\* Clear of the technology dialog (its Apply is the refresh)
tech_clear_filter ==
    /\ gui.pc = "open"
    /\ gui' = Refreshed([gui EXCEPT !.selected_technologies = {}])
    /\ UNCHANGED db /\ UNCHANGED notGui

\* What the operator types into the keyword dialog
KeywordTexts == {<<>>, <<" ", "A", ",">>}

\* Apply of the keyword dialog: {kw.strip().lower() for kw in text.split(',') if kw.strip()}
keywords_apply_filter(required_text, excluded_text) ==
    /\ gui.pc = "open"
    /\ gui' = Refreshed([gui EXCEPT !.required_keywords_filter = Keywords(required_text),
                                    !.excluded_keywords_filter = Keywords(excluded_text)])
    /\ UNCHANGED db /\ UNCHANGED notGui

\* A click on a sort option
on_sort_click(key) ==
    /\ gui.pc = "open"
    /\ gui' = Refreshed(IF gui.sort_by = key
                        THEN [gui EXCEPT !.sort_order = IF @ = "desc" THEN "asc" ELSE "desc"]
                        ELSE [gui EXCEPT !.sort_by = key, !.sort_order = "desc"])
    /\ UNCHANGED db /\ UNCHANGED notGui

SortKeys == {"scraped_at", "valid_until", "title", "company"}

InitGui ==
    /\ InitRest
    /\ backend = "db"
    /\ db = StoredOffers
    /\ rel = <<>>
    /\ relNextId = 1
    /\ call = [w \in Workers |-> Idle]
    /\ ret = [w \in Workers |-> "none"]
    /\ InitScrape

NextGui ==
    \/ MainWindow
    \/ refresh_offers_list
    \/ \E oid \in 1..Len(StoredOffers) :
            \/ card_click_handler(oid)
            \/ \E value \in BOOLEAN : on_checkbox_change(oid, value)
    \/ select_all
    \/ deselect_all
    \/ open_selected
    \/ \E tech_name \in TechChoices : toggle_tech(tech_name)
    \/ tech_clear_filter
    \/ \E required_text \in KeywordTexts, excluded_text \in KeywordTexts :
            keywords_apply_filter(required_text, excluded_text)
    \/ \E key \in SortKeys : on_sort_click(key)

SpecGui == InitGui /\ [][NextGui]_vars

(***************************************************************************)
(* SpecMain: one run of python main.py, with or without --cli, over a      *)
(* config.json the operator left behind.                                   *)
(***************************************************************************)
InitMain ==
    /\ today = 1
    /\ resp = [op |-> "none"]
    /\ handed = [scraper |-> "none"]
    /\ crawl = NoCrawl
    /\ gui = NoWindow
    /\ backend = "db"
    /\ InitStores
    /\ InitScrape
    /\ \E cli \in BOOLEAN : proc = Started(cli)
    /\ \E file \in FileContents : config_file = [s \in Stores |-> IF s = "desktop" THEN file ELSE Absent]
    /\ loaded = [s \in Stores |-> NotLoaded]

NextMain ==
    \/ ImportModules
    \/ main
    \/ GuiServes
    \/ GuiShutdown
    \/ \E e \in {"ImportError", "Exception"} : GuiFails(e)
    \/ MainExcept
    \/ run_cli
    \/ StartThread
    \/ JoinThreads
    \/ \E w \in Workers :
        \/ ThreadScrape(w)
        \/ ThreadUnknown(w)
        \/ \E o \in ConcOffers : ThreadInsert(w, o)
        \/ ThreadStep(w)
        \/ ThreadReturn(w)

SpecMain == InitMain /\ [][NextMain]_vars

(***************************************************************************)
(* SpecConfig: reads and writes of the two configuration stores.           *)
(***************************************************************************)
InitConfig ==
    /\ today = 1
    /\ resp = [op |-> "none"]
    /\ handed = [scraper |-> "none"]
    /\ crawl = NoCrawl
    /\ gui = NoWindow
    /\ backend = "db"
    /\ InitStores
    /\ InitScrape
    /\ proc = NoProcess
    /\ config_file \in [Stores -> FileContents]
    /\ loaded = [s \in Stores |-> NotLoaded]

NextConfig ==
    \/ ConfigManager_init /\ UNCHANGED proc /\ UNCHANGED notBoot
    \/ \E updates \in GuiUpdates : ConfigManager_save_config(updates)
    \/ get_config
    \/ \E config \in ConfigBodies : update_config(config)

SpecConfig == InitConfig /\ [][NextConfig]_vars

(***************************************************************************)
(* Stores                                                                  *)
(***************************************************************************)
\* The rows of the store this process writes
Stored == IF backend = "db" THEN db ELSE rel

UniqueUrls(rows) == \A i, j \in 1..Len(rows) : rows[i].url = rows[j].url => i = j

\* Worker w's insert_offer call returns in this step
Returns(w) == call[w] # Idle /\ call'[w] = Idle

\* C1: in either store, under every interleaving of the workers' url check and write,
\* no two stored rows share a url, and an insert_offer call that returns while its url
\* is stored returns False and leaves the store as it was.
C1_UrlUnique ==
    /\ [](UniqueUrls(db) /\ UniqueUrls(rel))
    /\ [][\A w \in Workers :
            (Returns(w) /\ offer_exists(Stored, call[w].offer.url))
                => (ret'[w] = "False" /\ db' = db /\ rel' = rel)]_vars

\* C1 witness: a worker is past its url check and about to write a url that another
\* worker's insert has stored in the meantime.
C1_Witness ==
    \E w1, w2 \in Workers :
        /\ w1 # w2
        /\ ret[w1] = "True"
        /\ call[w2].pc = "write"
        /\ offer_exists(Stored, call[w2].offer.url)

EqIgnoreCase(a, b) ==
    \/ a = None /\ b = None
    \/ a # None /\ b # None /\ Lower(a) = Lower(b)

\* A stored row other than o's url with o's company and title, letter case ignored
HasTwin(rows, o) ==
    \E i \in 1..Len(rows) :
        /\ rows[i].url # o.url
        /\ EqIgnoreCase(rows[i].company, o.company)
        /\ EqIgnoreCase(rows[i].title, o.title)

\* C2 (as claimed): when an adapter insert of an offer with a new url returns while a
\* row with another url and the same company and title (case ignored) is stored, it
\* returns False and adds nothing if check_duplicates is set, and returns True and
\* adds one row if it is not.
C2_TwinRejected ==
    [][(/\ Returns(1)
        /\ Truthy(call[1].offer.url)
        /\ ~offer_exists(rel, call[1].offer.url)
        /\ HasTwin(rel, call[1].offer))
        => IF call[1].check_duplicates
           THEN ret'[1] = "False" /\ rel' = rel
           ELSE ret'[1] = "True" /\ Len(rel') = Len(rel) + 1]_vars

(***************************************************************************)
(* Scrape tasks                                                            *)
(***************************************************************************)
\* Task ids that start_scrape has returned
Issued == {t \in TaskIds : bg[t].pc # "unissued"}

\* Every worker of task t has been started and has returned
AllWorkersReturned(t) ==
    /\ Len(thr[t]) = Len(bg[t].sources)
    /\ \A i \in DOMAIN thr[t] : thr[t][i].pc = "done"

\* C3: a task record's results mapping has exactly the configured sources as keys, each
\* value a non-negative integer, from the moment the record exists; and its status goes
\* from "running" to "completed" only when every worker of the task has returned.
C3_TaskRecord ==
    /\ [](\A t \in DOMAIN scraping_results :
            /\ DOMAIN scraping_results[t].results = Range(bg[t].sources)
            /\ \A s \in Range(bg[t].sources) : scraping_results[t].results[s] \in Nat)
    /\ [][\A t \in DOMAIN scraping_results :
            (scraping_results[t].status = "running"
                /\ scraping_results'[t].status = "completed")
            => AllWorkersReturned(t)]_vars

\* C3 witness: a completed task of two workers; the worker started second saved an
\* offer, the one started first saved none.
C3_Witness ==
    \E t \in DOMAIN scraping_results :
        /\ scraping_results[t].status = "completed"
        /\ Len(thr[t]) = 2
        /\ thr[t][1].saved_count = 0
        /\ thr[t][2].saved_count = 1

\* C4 (as claimed): a status poll for a task id that start_scrape has returned is
\* answered with the task's record, never with not-found.
C4_IssuedResolvable ==
    (http.op = "status" /\ http.task \in Issued) => http.code = 200

\* C5: a start request with an empty sources list is answered with a client error and
\* starts no worker, opens no store session and adds no registry entry.
C5_EmptyStartRejected ==
    [][start_scrape(<<>>) =>
        /\ http'.code = 400
        /\ UNCHANGED <<bg, thr, scraping_results>>]_vars

\* C5 witness: the empty start has been answered while nothing was ever started
C5_Witness ==
    /\ http.op = "start" /\ http.code = 400
    /\ scraping_results = <<>>
    /\ \A t \in TaskIds : bg[t].pc = "unissued" /\ thr[t] = <<>>

(***************************************************************************)
(* Offers API                                                              *)
(***************************************************************************)
\* The filters of a query other than show_seen
OtherFilters(q, row) ==
    /\ Truthy(q.source) => row.source = q.source
    /\ TechFilter(q.selected_technologies, row)
    /\ KeywordFilter(q.required_keywords, q.excluded_keywords, row)

\* A query with show_seen=false has returned no seen offer
NoSeenReturned ==
    (resp.op = "get_offers" /\ ~resp.request.show_seen)
        => \A i \in 1..Len(resp.offers) : ~resp.offers[i].seen

\* The stored rows that the mark-seen request just answered has named and that satisfy
\* the other filters of q
MarkedMatching(q) ==
    {i \in 1..Len(rel) : rel[i].id \in Range(resp.offer_ids) /\ OtherFilters(q, rel[i])}

\* C6 (as claimed): a show_seen=false query never returns a seen offer; a query that
\* follows mark-seen on an offer's id returns that offer if it has show_seen=true and the
\* offer satisfies its other filters, and does not return it if it has show_seen=false.
C6_SeenVisibility ==
    /\ []NoSeenReturned
    /\ [][\A q \in Queries :
            (resp.op = "mark_seen" /\ resp'.op = "get_offers" /\ get_offers(q)) =>
                \A i \in MarkedMatching(q) :
                    IF q.show_seen
                    THEN \E k \in 1..Len(resp'.offers) : resp'.offers[k].id = rel[i].id
                    ELSE \A k \in 1..Len(resp'.offers) : resp'.offers[k].id # rel[i].id]_vars

\* The requested page covers every offer that satisfies the filters of q
PageCoversAll(q) ==
    /\ q.offset = 0
    /\ q.limit >= Cardinality({i \in 1..Len(rel) :
                                    SeenFilter(q.show_seen, rel[i]) /\ OtherFilters(q, rel[i])})

\* C6 (amended): a show_seen=false query never returns a seen offer; a query that follows
\* mark-seen on an offer's id does not return that offer if it has show_seen=false, and
\* returns it if it has show_seen=true, the offer satisfies its other filters and the
\* requested page covers every matching offer (offset 0, limit at least their number).
C6_SeenVisibilityPaged ==
    /\ []NoSeenReturned
    /\ [][\A q \in Queries :
            (resp.op = "mark_seen" /\ resp'.op = "get_offers" /\ get_offers(q)) =>
                \A i \in MarkedMatching(q) :
                    IF q.show_seen
                    THEN PageCoversAll(q) =>
                            \E k \in 1..Len(resp'.offers) : resp'.offers[k].id = rel[i].id
                    ELSE \A k \in 1..Len(resp'.offers) : resp'.offers[k].id # rel[i].id]_vars

\* C6 witness: a show_seen=true query has returned, marked seen, the offer that was
\* imported unseen, together with another offer.
C6_Witness ==
    /\ resp.op = "get_offers"
    /\ resp.request.show_seen
    /\ Len(resp.offers) >= 2
    /\ \E k \in 1..Len(resp.offers) : resp.offers[k].url = <<"w">> /\ resp.offers[k].seen

\* C7: delete-expired removes exactly the rows whose valid_until is before today, leaves
\* every other row (valid_until today, later or absent) as it was, and returns the number
\* of rows it removed.
C7_DeleteExpired ==
    [][delete_expired_offers =>
        /\ \A i \in 1..Len(rel) :
            IF rel[i].valid_until # NoDate /\ rel[i].valid_until[1] < today
            THEN \A k \in 1..Len(rel') : rel'[k].id # rel[i].id
            ELSE \E k \in 1..Len(rel') : rel'[k] = rel[i]
        /\ \A k \in 1..Len(rel') : \E i \in 1..Len(rel) : rel'[k] = rel[i]
        /\ resp'.code = 200
        /\ resp'.deleted_count = Len(rel) - Len(rel')]_vars

\* C7 witness: delete-expired has removed a row and has left a row that is valid until
\* today and a row without valid_until.
C7_Witness ==
    /\ resp.op = "delete_expired"
    /\ resp.deleted_count >= 1
    /\ \E i \in 1..Len(rel) : rel[i].valid_until = <<today>>
    /\ \E i \in 1..Len(rel) : rel[i].valid_until = NoDate

\* The urls of a table's rows or of a file's records
UrlsOf(s) == {s[i].url : i \in 1..Len(s)}

\* The last response is an export of all offers
ExportedAll ==
    /\ resp.op = "export_json"
    /\ resp.request.export_all
    /\ ~(resp.request.given /\ resp.request.offer_ids # <<>>)

\* C8: an export of all offers lists every stored offer once, and importing that file
\* into the emptied store yields the urls the store had, imported_count equal to the
\* number of offers it had, and skipped_count 0.
C8_RoundTrip ==
    /\ [][\A request \in ExportRequests :
            (request.export_all /\ ~(request.given /\ request.offer_ids # <<>>)
                /\ resp'.op = "export_json" /\ export_offers_json(request))
            => /\ Len(resp'.body) = Len(rel)
               /\ UrlsOf(resp'.body) = UrlsOf(rel)]_vars
    /\ [][(ExportedAll /\ rel = <<>> /\ ImportExported) =>
            /\ UrlsOf(rel') = UrlsOf(resp.body)
            /\ resp'.code = 200
            /\ resp'.imported_count = Len(resp.body)
            /\ resp'.skipped_count = 0]_vars

\* C8 witness: an import has stored two or more offers and skipped none, which only the
\* import of an exported file into the emptied store does.
C8_Witness ==
    /\ resp.op = "import_json"
    /\ resp.code = 200
    /\ resp.imported_count >= 2
    /\ resp.skipped_count = 0
    /\ Len(rel) = resp.imported_count

\* The records of a JSON upload without a url: the key is missing, null or ""
JsonUrlLess(file) ==
    {i \in 1..Len(file.records) :
        file.records[i].kind = "object" /\ ~Truthy(Get(file.records[i].url, None))}

\* The records of a CSV upload without a url: the column or the field is missing, or ""
CsvUrlLess(rows) == {i \in 1..Len(rows) : ~Truthy(Get(rows[i].url, None))}

\* The import has counted n skipped records and no stored row is without a url
SkippedAtLeast(n) ==
    /\ n > 0 => (resp'.code = 200 /\ resp'.skipped_count >= n)
    /\ \A k \in 1..Len(rel') : Truthy(rel'[k].url)

\* C9 (as claimed): a JSON or CSV import counts every record without a url in
\* skipped_count and stores no row for it, whatever the other records of the file are.
C9_UrlLessSkipped ==
    [][/\ \A file \in JsonFiles :
            import_offers_json(file) => SkippedAtLeast(Cardinality(JsonUrlLess(file)))
       /\ \A rows \in CsvFiles :
            import_offers_csv(rows) => SkippedAtLeast(Cardinality(CsvUrlLess(rows)))]_vars

(***************************************************************************)
(* Excluded keywords                                                       *)
(***************************************************************************)
\* The text of an offer field, '' when the field is absent
TextOf(v) == IF v = None \/ v = Missing THEN <<>> ELSE v

\* The offer's title or description contains an excluded keyword, letter case ignored
HasExcluded(offer, excluded_keywords) ==
    \E k \in 1..Len(excluded_keywords) :
        \/ Contains(Lower(TextOf(offer.title)), Lower(excluded_keywords[k]))
        \/ Contains(Lower(TextOf(offer.description)), Lower(excluded_keywords[k]))

\* C10 (as claimed): in every scrape_page_by_page implementation an offer whose title or
\* description contains an excluded keyword is not handed to the writer, and an offer
\* that contains none is handed to it, also when its description or technologies is absent.
C10_ExcludedFilter ==
    handed.scraper # "none" =>
        \A i \in 1..Len(handed.parsed) :
            IF HasExcluded(handed.parsed[i], handed.excluded_keywords)
            THEN \A k \in 1..Len(handed.offers) : handed.offers[k] # handed.parsed[i]
            ELSE \E k \in 1..Len(handed.offers) : handed.offers[k] = handed.parsed[i]

(***************************************************************************)
(* C11: when the process is started without --cli and starting the GUI     *)
(* fails, the process logs a warning and then runs headless mode; it does  *)
(* not terminate without having run headless mode.                         *)
(***************************************************************************)
C11_GuiFallback ==
    (proc.pc = "exited" /\ ~proc.cli /\ proc.gui = "failed")
        => /\ proc.headless
           /\ \E i \in 1..Len(proc.log) : proc.log[i] = "warning"

(***************************************************************************)
(* C12: GET /api/offers returns the slice [offset, offset+limit) of the    *)
(* offers that pass the database filters and the keyword filters, in the   *)
(* requested sort order; with an unchanged store, the pages at offset 0,   *)
(* limit, 2*limit, ... return every matching offer exactly once and never  *)
(* an offer that fails a keyword filter.                                   *)
(***************************************************************************)
\* The request for the page that follows
NextPage(q) == [q EXCEPT !.offset = q.offset + q.limit]

Matches(q, row) == Where(q, row) /\ KeywordFilter(q.required_keywords, q.excluded_keywords, row)

\* The answer is a page of the matching rows in the requested order
IsSortedPage(q, offers) ==
    LET n == Cardinality({i \in 1..Len(rel) : Matches(q, rel[i])})
        rest == IF n > q.offset THEN n - q.offset ELSE 0
    IN  /\ \A i \in 1..Len(offers) : offers[i] \in Range(rel) /\ Matches(q, offers[i])
        /\ Len(offers) = IF rest < q.limit THEN rest ELSE q.limit
        /\ \A i, j \in 1..Len(offers) :
            i < j => IF q.sort_order = "desc"
                     THEN ~Before(offers[i], offers[j], q.sort_by)
                     ELSE ~Before(offers[j], offers[i], q.sort_by)

\* The rows of the last answer are still stored: the store is as it was when it was given
StoreUnchanged == resp.offers # <<>> /\ Range(resp.offers) \subseteq Range(rel)

C12_PagesPartition ==
    [][(resp'.op = "get_offers" /\ resp' # resp)
        => /\ IsSortedPage(resp'.request, resp'.offers)
           /\ (resp.op = "get_offers" /\ resp'.request = NextPage(resp.request) /\ StoreUnchanged)
                => Range(resp.offers) \cap Range(resp'.offers) = {}]_vars

(***************************************************************************)
(* C13: in both configuration stores, reading the configuration when the   *)
(* file does not exist creates the file holding the default document and   *)
(* returns the default document; reading when the file exists but cannot   *)
(* be parsed returns the default document and leaves the file unchanged.   *)
(***************************************************************************)
\* This step is a read of store s
IsRead(s) ==
    /\ loaded'[s].op = "read"
    /\ loaded'[s] # loaded[s] \/ config_file'[s] # config_file[s]

StoredNames ==
    {Strip(part) : part \in UNION {Range(Split(rel[i].technologies)) :
                        i \in {i \in 1..Len(rel) : rel[i].technologies # None}}} \ {<<>>}

Occurrences(body, name) == Cardinality({i \in 1..Len(body) : body[i] = name})

C14_Technologies ==
    [][(resp'.op = "technologies" /\ resp' # resp)
        => LET body == resp'.body
           IN  /\ \A i \in 1..(Len(body) - 1) : TextLess(body[i], body[i + 1])
               /\ Range(body) = StoredNames
               /\ \A name \in StoredNames : Occurrences(body, name) = 1]_vars

\* C14 witness: the endpoint has answered over rows that store "xe, XE," and "Xe,xe "
C14_Witness ==
    /\ resp.op = "technologies"
    /\ resp.body = << <<"X", "E">>, <<"X", "e">>, <<"x", "e">> >>
    /\ \E i, j \in 1..Len(rel) : i # j /\ rel[i].technologies # None /\ rel[j].technologies # None

(***************************************************************************)
(* C15: when several scrape workers insert through their own adapter with  *)
(* duplicate-checking enabled, under every interleaving of their check and *)
(* insert steps the store never holds two rows with different urls whose   *)
(* company and title are equal ignoring case.                              *)
(***************************************************************************)
TwinRows(i, j) ==
    /\ EqIgnoreCase(rel[i].company, rel[j].company)
    /\ EqIgnoreCase(rel[i].title, rel[j].title)

C15_NoTwinRows ==
    \A i, j \in 1..Len(rel) : rel[i].url # rel[j].url => ~TwinRows(i, j)

(***************************************************************************)
(* C16: after any sequence of checked insert_offer calls by one worker on  *)
(* an initially empty store, no two stored rows have titles equal ignoring *)
(* case together with companies that are equal ignoring case or both       *)
(* absent (incoming company absent or '', incoming title '' included).     *)
(***************************************************************************)
C16_NoTwinRowsSeq ==
    \A i, j \in 1..Len(rel) : i # j => ~TwinRows(i, j)

(***************************************************************************)
(* C17: when a scrape worker's run raises an exception after its adapter   *)
(* has inserted k offers, the worker still closes its store session and    *)
(* sets the task's results entry for its source to k.                      *)
(***************************************************************************)
\* Worker i of task t leaves its finally block in this step, after an exception
EndsAfterRaise(t, i) ==
    /\ i \in DOMAIN thr[t]
    /\ thr[t][i].pc = "finally"
    /\ thr[t][i].raised
    /\ thr'[t][i].pc = "done"

C17_SavedBeforeFailure ==
    [][\A t \in TaskIds, i \in ThreadIdx :
        EndsAfterRaise(t, i)
            => /\ thr'[t][i].session = "closed"
               /\ scraping_results'[t].results[thr[t][i].source] = thr[t][i].scraped]_vars

(***************************************************************************)
(* C18: in an orchestrated scrape task, if one source's worker fails with  *)
(* an exception, every other worker of the task still runs to its own end  *)
(* and the task's status eventually becomes "completed".                   *)
(***************************************************************************)
Raised(t, i) == i \in DOMAIN thr[t] /\ thr[t][i].raised

\* Every source of task t has had its worker, every worker has ended, the status is set
AllEndedAndCompleted(t) ==
    /\ t \in DOMAIN scraping_results
    /\ scraping_results[t].status = "completed"
    /\ Len(thr[t]) = Len(bg[t].sources)
    /\ \A j \in DOMAIN thr[t] : thr[t][j].pc = "done"

C18_FailureIsolated ==
    \A t \in TaskIds : (\E i \in ThreadIdx : Raised(t, i)) ~> AllEndedAndCompleted(t)

\* C18 witness: a task is completed, one of its workers raised and another worker ended
\* without raising, having saved an offer
C18_Witness ==
    \E t \in TaskIds :
        /\ AllEndedAndCompleted(t)
        /\ \E i, j \in DOMAIN thr[t] :
            /\ thr[t][i].raised
            /\ ~thr[t][j].raised /\ thr[t][j].saved_count > 0

(***************************************************************************)
(* C19: for every sources list that start accepts, a list naming a source  *)
(* more than once included, no two workers of one task write the same      *)
(* entry of the task's results mapping, and the number of results entries  *)
(* equals the number of workers started.                                   *)
(***************************************************************************)
\* The entry of results that worker i of task t writes in its finally block
Slot(t, i) == thr[t][i].source

\* run_scrapers_task has started every worker of task t
AllStarted(t) == bg[t].pc \in {"joining", "marking", "stamping", "finished"}

C19_OwnSlot ==
    \A t \in DOMAIN scraping_results :
        /\ \A i, j \in DOMAIN thr[t] : i # j => Slot(t, i) # Slot(t, j)
        /\ AllStarted(t) => Cardinality(DOMAIN scraping_results[t].results) = Len(thr[t])

(***************************************************************************)
(* C20: DatabaseAdapter.insert_offer never raises: for every failure of    *)
(* the persistence layer, in the url existence query, in the company+title *)
(* count query or in the insert/commit, it returns false and leaves the    *)
(* store's rows as they were before the call.                              *)
(***************************************************************************)
\* A statement of worker w's insert_offer call fails in this step
PersistenceFailure(w) ==
    /\ call[w].pc \in {"url", "count", "write"}
    /\ AdapterUrlCheckFails(w) \/ AdapterCountFails(w) \/ AdapterWriteFails(w)

C20_NeverRaises ==
    [][\A w \in Workers :
        /\ ret'[w] # "raised"
        /\ PersistenceFailure(w) => ret'[w] = "False" /\ rel' = rel]_vars

(***************************************************************************)
(* C21: when a JSON or CSV import ends with a client or server error       *)
(* (malformed JSON, a record that is not an object, a constraint violation *)
(* at commit), the store holds exactly the rows it held before the call.   *)
(***************************************************************************)
\* An import request is answered with an error in this step
ImportFails ==
    /\ resp'.op \in {"import_json", "import_csv"}
    /\ resp'.code # 200
    /\ resp' # resp \/ relNextId' # relNextId

C21_FailedImportKeepsStore == [][ImportFails => rel' = rel]_vars

\* C21 witness: an import into the empty store was answered with a server error after
\* its first record had been flushed to the table; the table is empty, the id is spent
C21_Witness ==
    /\ resp.op = "import_json"
    /\ resp.code = 500
    /\ rel = <<>>
    /\ relNextId = 2

(***************************************************************************)
(* C22: for any import file, including one in which two records carry the  *)
(* same url: a record whose url already exists (in the store or from an    *)
(* earlier record of the same file) is skipped, the import succeeds,       *)
(* imported_count equals the number of rows added to the store, and        *)
(* imported_count + skipped_count equals the number of records in the file.*)
(***************************************************************************)
\* The answer counts n records: the rows of the table are kept, the rows added are as
\* many as imported_count, no url is stored twice
ImportCounts(n) ==
    /\ resp'.imported_count = Len(rel') - Len(rel)
    /\ resp'.imported_count + resp'.skipped_count = n
    /\ SubSeq(rel', 1, Len(rel)) = rel
    /\ \A i, j \in 1..Len(rel') : rel'[i].url = rel'[j].url => i = j

ImportSucceeds(n) == resp'.code = 200 /\ ImportCounts(n)

C22_ImportCounts ==
    [][/\ \A file \in JsonFiles :
            file.valid /\ import_offers_json(file) => ImportSucceeds(Len(file.records))
       /\ \A rows \in CsvFiles :
            import_offers_csv(rows) => ImportSucceeds(Len(rows))]_vars

\* What holds of the imports that are answered with the counts
ImportCountsWhenAnswered ==
    [][/\ \A file \in JsonFiles :
            file.valid /\ import_offers_json(file) /\ resp'.code = 200
                => ImportCounts(Len(file.records))
       /\ \A rows \in CsvFiles :
            import_offers_csv(rows) /\ resp'.code = 200 => ImportCounts(Len(rows))]_vars

(***************************************************************************)
(* C23: an export request (JSON or CSV) that selects no ids (offer_ids     *)
(* null or an empty list) and has export_all false exports exactly the     *)
(* offers the list endpoint would return, without pagination, for the same *)
(* source, show_seen, sort and required/excluded keyword filters; with a   *)
(* non-empty id list exactly the rows with those ids are exported; with    *)
(* export_all every row is exported.                                       *)
(***************************************************************************)
\* The rows get_offers keeps for the filters of the request (the technologies of a CSV
\* request as the list endpoint's comma-separated parameter)
Listed(request, technologies) ==
    LET q == Query(DefaultLimit, 0, request.source, request.show_seen, request.sort_by,
                   request.sort_order, technologies, request.required_keywords,
                   request.excluded_keywords)
    IN  {i \in 1..Len(rel) :
            /\ Where(q, rel[i])
            /\ KeywordFilter(q.required_keywords, q.excluded_keywords, rel[i])}

\* The ids an export of the request is to hold
ToExport(request, technologies) ==
    IF request.given /\ request.offer_ids # <<>>
    THEN {rel[i].id : i \in {i \in 1..Len(rel) : rel[i].id \in Range(request.offer_ids)}}
    ELSE IF request.export_all THEN {rel[i].id : i \in 1..Len(rel)}
    ELSE {rel[i].id : i \in Listed(request, technologies)}

\* The body of the answer holds each of these ids once, in the order of the sort column
Exported(ids) ==
    /\ {resp'.body[i].id : i \in 1..Len(resp'.body)} = {<<id>> : id \in ids}
    /\ Len(resp'.body) = Cardinality(ids)

ExportedCsv(ids) ==
    /\ {resp'.body[i].id : i \in 1..Len(resp'.body)} = {<<ToString(id)>> : id \in ids}
    /\ Len(resp'.body) = Cardinality(ids)

\* selected_technologies of a CSV request of the model as the list endpoint takes it
CommaSeparated(selected_technologies) ==
    IF selected_technologies # <<>> THEN selected_technologies[1] ELSE None

C23_ExportMatchesList ==
    [][/\ resp'.op = "export_json" =>
            \A request \in ExportRequests :
                export_offers_json(request) => Exported(ToExport(request, None))
       /\ resp'.op = "export_csv" =>
            \A request \in CsvExportRequests :
                export_offers_csv(request)
                    => ExportedCsv(ToExport(request,
                                            CommaSeparated(request.selected_technologies)))]_vars

\* The same for the requests whose offer_ids is null or a non-empty list
ExportMatchesListUnlessEmptyList ==
    [][/\ resp'.op = "export_json" =>
            \A request \in ExportRequests :
                (export_offers_json(request) /\ ~(request.given /\ request.offer_ids = <<>>))
                    => Exported(ToExport(request, None))
       /\ resp'.op = "export_csv" =>
            \A request \in CsvExportRequests :
                (export_offers_csv(request) /\ ~(request.given /\ request.offer_ids = <<>>))
                    => ExportedCsv(ToExport(request,
                                            CommaSeparated(request.selected_technologies)))]_vars

(***************************************************************************)
(* C24: each scraper's scrape_page_by_page requests listing pages in       *)
(* strictly increasing page/offset order, requests at most max_pages of    *)
(* them, and requests no further listing page after a listing fetch fails, *)
(* a listing page is empty, or (JustJoin.it and NoFluffJobs) a page holds  *)
(* fewer than 100 items; a failed fetch is never repeated.                 *)
(***************************************************************************)
\* The outcome of a listing request after which no further page is to be requested
Ends(scraper, request) ==
    \/ ~request.ok
    \/ request.items = 0
    \/ scraper \in {"JustJoinItScraper", "NoFluffJobsScraper"} /\ request.items < 100

C24_ListingOrder ==
    crawl.pc # "none" =>
        LET requested == crawl.requested
        IN  /\ \A i, j \in 1..Len(requested) : i < j => requested[i].at < requested[j].at
            /\ Len(requested) <= crawl.max_pages
            /\ \A i, j \in 1..Len(requested) :
                    i < j => ~Ends(crawl.scraper, requested[i])
            /\ \A i, j \in 1..Len(requested) :
                    (~requested[i].ok /\ i # j) => requested[j].at # requested[i].at

\* C24 witness: a JustJoin.it run with max_pages 3 has ended after its second listing
\* request, which gave a page of fewer than 100 items
C24_Witness ==
    /\ crawl.pc = "done"
    /\ crawl.scraper = "JustJoinItScraper"
    /\ crawl.max_pages = 3
    /\ Len(crawl.requested) = 2
    /\ crawl.requested[2].ok /\ crawl.requested[2].items = 1

(***************************************************************************)
(* C25: in headless mode, for every configured source that names one of    *)
(* the three supported portals (pracuj_pl, justjoin_it, nofluffjobs), the  *)
(* worker thread started for it runs that portal's scrape against the      *)
(* embedded store, and run_cli returns only after every worker thread has  *)
(* finished.                                                               *)
(***************************************************************************)
Portals == {"pracuj_pl", "justjoin_it", "nofluffjobs"}

\* run_cli has started the threads and returned
HeadlessRunOver == proc.pc = "exited" /\ proc.headless /\ Sources # <<>>

\* The thread of source i has run the scrape and returned
RanScrape(i) == proc.threads[i] = "done"

C25_HeadlessScrapes ==
    HeadlessRunOver =>
        /\ \A i \in 1..Len(Sources) : proc.threads[i] \notin {"unstarted", "running", "scraping"}
        /\ \A i \in 1..Len(Sources) : Sources[i] \in Portals => RanScrape(i)

\* The same without nofluffjobs
HeadlessScrapesCliSources ==
    HeadlessRunOver =>
        /\ \A i \in 1..Len(Sources) : proc.threads[i] \notin {"unstarted", "running", "scraping"}
        /\ \A i \in 1..Len(Sources) : Sources[i] \in CliSources => RanScrape(i)

(***************************************************************************)
(* C26: every offer stored by a scrape of source S has its source field    *)
(* equal to S's configured name, so that in every reachable state each     *)
(* stored row's source is one of pracuj_pl, justjoin_it, nofluffjobs or    *)
(* imported.                                                               *)
(***************************************************************************)
SourceValues == {<<"pracuj_pl">>, <<"justjoin_it">>, <<"nofluffjobs">>, <<"imported">>}

C26_SourceField == \A k \in 1..Len(rel) : rel[k].source \in SourceValues

\* What the rows of a scrape carry instead: the scraper's source_name
SourceIsScraperName ==
    \A k \in 1..Len(rel) : \E source \in KnownSources : rel[k].source = <<source_name(source)>>

(***************************************************************************)
(* C27: in the desktop GUI, "Select All" adds exactly the ids of the       *)
(* currently rendered (filtered) offers to the selection and "Deselect     *)
(* All" removes exactly the ids of the currently rendered (filtered)       *)
(* offers; the selection state of offers that are stored but not currently *)
(* rendered is left unchanged by both.                                     *)
(***************************************************************************)
\* The ids of the stored offers that are not on the screen
Hidden == {db[k].id : k \in 1..Len(db)} \ RenderedIds

\* The selection of the offers that are not on the screen is left as it was
HiddenUnchanged == gui'.selected_offers \cap Hidden = gui.selected_offers \cap Hidden

C27_SelectAllRendered ==
    [][/\ select_all =>
            /\ gui'.selected_offers = gui.selected_offers \cup RenderedIds
            /\ HiddenUnchanged
       /\ deselect_all =>
            /\ gui'.selected_offers = gui.selected_offers \ RenderedIds
            /\ HiddenUnchanged]_vars

\* The part of it that is about "Select All"
SelectAllRendered ==
    [][select_all =>
            /\ gui'.selected_offers = gui.selected_offers \cup RenderedIds
            /\ HiddenUnchanged]_vars

(***************************************************************************)
(* C28: in the desktop GUI, after any sequence of select, deselect, filter *)
(* and refresh actions, "Open Selected" opens the url of every offer in    *)
(* the selection set and reports a count equal to the size of the          *)
(* selection set; when the selection set is empty it opens nothing and     *)
(* shows a warning.                                                        *)
(***************************************************************************)
\* The urls of the stored offers in the selection
UrlsOfSelection == {db[k].url : k \in {k \in 1..Len(db) : db[k].id \in gui.selected_offers}}

C28_OpenSelected ==
    [][open_selected =>
        IF gui.selected_offers = {}
        THEN gui'.opened = <<>> /\ gui'.notify = "warning"
        ELSE /\ Range(gui'.opened) = UrlsOfSelection
             /\ Len(gui'.opened) = Cardinality(gui.selected_offers)
             /\ gui'.notify = "info"]_vars

\* What it opens: the urls of the selected offers that are on the screen, once each
OpenSelectedRendered ==
    [][open_selected =>
        IF gui.selected_offers = {}
        THEN gui'.opened = <<>> /\ gui'.notify = "warning"
        ELSE /\ Range(gui'.opened) =
                    {db[k].url : k \in {k \in 1..Len(db) :
                                            db[k].id \in gui.selected_offers \cap RenderedIds}}
             /\ Len(gui'.opened) = Cardinality(gui.selected_offers \cap RenderedIds)
             /\ gui'.notify = "info"]_vars

(***************************************************************************)
(* C29: in every state of a task record that a status poll can observe,    *)
(* under any interleaving of the poll with the orchestrator run,           *)
(* completed_at is present if and only if status is "completed", and once  *)
(* status is "completed" neither status nor any results entry changes      *)
(* again.                                                                  *)
(***************************************************************************)
\* The record a status poll has been answered with
Polled == http.op = "status" /\ http.code = 200

\* Once completed, the task's status and results stay as they are
CompletedIsFinal ==
    \A t \in DOMAIN scraping_results :
        scraping_results[t].status = "completed"
            => /\ scraping_results'[t].status = "completed"
               /\ scraping_results'[t].results = scraping_results[t].results

C29_PolledRecord ==
    [][/\ Polled' => (http'.body[1].completed_at <=> http'.body[1].status = "completed")
       /\ CompletedIsFinal]_vars

\* The second half of it alone
CompletedStaysCompleted == [][CompletedIsFinal]_vars

(***************************************************************************)
(* C30: a scrape worker given a source name that is not one of the known   *)
(* scrapers performs no insert, leaves the task's results entry for that   *)
(* name at 0, closes its store session, and does not prevent the task from *)
(* reaching "completed".                                                   *)
(***************************************************************************)
SupportedNames == {"pracuj_pl", "justjoin_it", "nofluffjobs"}

\* Thread i of task t was started for a name that is not a scraper's
UnknownWorker(t, i) == i \in DOMAIN thr[t] /\ thr[t][i].source \notin SupportedNames

\* It has stored nothing and the results entry of its name is 0
NothingSaved(t, i) ==
    /\ thr[t][i].scraped = 0
    /\ thr[t][i].saved_count = 0
    /\ t \in DOMAIN scraping_results => scraping_results[t].results[thr[t][i].source] = 0

\* It has ended with its session closed and the task is completed
EndedAndCompleted(t, i) ==
    /\ thr[t][i].pc = "done"
    /\ thr[t][i].session = "closed"
    /\ t \in DOMAIN scraping_results
    /\ scraping_results[t].status = "completed"

C30_UnknownSource ==
    /\ [](\A t \in TaskIds : \A i \in ThreadIdx : UnknownWorker(t, i) => NothingSaved(t, i))
    /\ \A t \in TaskIds :
            (\E i \in ThreadIdx : UnknownWorker(t, i))
                ~> (\A i \in ThreadIdx : UnknownWorker(t, i) => EndedAndCompleted(t, i))

\* C30 witness: a task with a worker for an unknown name is completed, the worker's
\* session is closed, and the other worker of the task has stored an offer
C30_Witness ==
    \E t \in TaskIds : \E i, j \in DOMAIN thr[t] :
        /\ UnknownWorker(t, i) /\ EndedAndCompleted(t, i)
        /\ thr[t][j].scraped > 0

====
